---- MODULE Spec2Model ----
(***************************************************************************)
(* The to-do REST API of server/index.js over the file store of            *)
(* server/storage.js, and the Angular client of src/app (the App           *)
(* component and its derived views).  Strings are sequences of one-character strings, so  *)
(* that trim(), length, startsWith(), slice() and the regular expressions  *)
(* are computed as the code computes them.  JSON values are records        *)
(* [t, n, s]: the JavaScript type, the number (or 0/1 of a boolean) and    *)
(* the characters of a string.  Time is Date.now() in milliseconds,        *)
(* counted from the start of the server.  In Spec and SpecApi a handler    *)
(* runs from its request to its response in one step; SpecRace runs the    *)
(* auth handlers await by await.  Failures of the store (the 500           *)
(* responses) are not modelled.                                            *)
(***************************************************************************)
EXTENDS Integers, Sequences, FiniteSets, TLC

VARIABLES
    users,      \* users.json: the sequence of accounts
    todos,      \* todos/<safeName>.json: file key -> sequence of todo records
    sessions,   \* the tokens createSession has handed out
    limiter,    \* authLimiter's counter of the one caller: [hits, resetTime]
    now,        \* Date.now()
    quota,      \* todo requests the run may still issue
    req,        \* the request handled last
    res,        \* its response
    io,         \* the store accesses its handler made, in order
    handlers,   \* the auth handlers so far, by arrival: [op, cred, pc, seen, ...]
    client,     \* the App component: its signals
    net,        \* the client's HTTP calls that have not called back yet
    view        \* the derived views as last computed

serverVars == <<users, todos, sessions, limiter, now, quota, req, res, io>>
vars == <<users, todos, sessions, limiter, now, quota, req, res, io,
          handlers, client, net, view>>

\* ------------------------------------------------------------------ bounds

\* todo requests of a run of Spec, and of a run of SpecApi
MaxRequests == 3
MaxApiRequests == 2
\* milliseconds the clock moves on
MaxMsTicks == 1
\* auth requests of one window beyond the limiter's maximum
MaxExcess == 1

\* --------------------------------------------------------------- constants

MAX_TEXT_LENGTH == 500
DAY_MS == 24 * 60 * 60 * 1000
JWT_TTL == 24 * 60 * 60
JWT_SECRET == "dev-secret-change-in-production"
WINDOW_MS == 15 * 60 * 1000
RATE_MAX == 10

\* ----------------------------------------------------------------- strings

Rep(c, n) == [i \in 1..n |-> c]

Digits == <<"0", "1", "2", "3", "4", "5", "6", "7", "8", "9">>
DigitSet == {Digits[i] : i \in 1..10}
Letters == {"a", "b", "c", "d", "e", "g", "h", "i", "k", "l", "m", "n", "o",
            "r", "s", "t", "u", "w", "y", "x", "B", "J"}
SafeChars == Letters \cup DigitSet \cup {"_", "-"}
WhiteSpace == {" ", "\t"}

SetMin(S) == CHOOSE x \in S : \A y \in S : x <= y
SetMax(S) == CHOOSE x \in S : \A y \in S : x >= y

RECURSIVE trimStart(_)
trimStart(s) == IF s # <<>> /\ s[1] \in WhiteSpace THEN trimStart(Tail(s)) ELSE s

RECURSIVE trimEnd(_)
trimEnd(s) ==
    IF s # <<>> /\ s[Len(s)] \in WhiteSpace THEN trimEnd(SubSeq(s, 1, Len(s) - 1)) ELSE s

\* String.prototype.trim
trim(s) == trimEnd(trimStart(s))

\* String.prototype.startsWith
startsWith(s, p) == Len(s) >= Len(p) /\ SubSeq(s, 1, Len(p)) = p

\* String.prototype.slice(k), k >= 0
slice(s, k) == SubSeq(s, k + 1, Len(s))

S_low == <<"l", "o", "w">>
S_medium == <<"m", "e", "d", "i", "u", "m">>
S_high == <<"h", "i", "g", "h">>
S_Bearer == <<"B", "e", "a", "r", "e", "r", " ">>

\* ------------------------------------------------------------- JSON values

Undefined == [t |-> "undefined", n |-> 0, s |-> <<>>]
Null == [t |-> "null", n |-> 0, s |-> <<>>]
Bool(b) == [t |-> "boolean", n |-> IF b THEN 1 ELSE 0, s |-> <<>>]
Num(k) == [t |-> "number", n |-> k, s |-> <<>>]
Str(s) == [t |-> "string", n |-> 0, s |-> s]

\* !v is ~Truthy(v)
Truthy(v) ==
    CASE v.t = "string" -> v.s # <<>>
      [] v.t = "number" -> v.n # 0
      [] v.t = "boolean" -> v.n = 1
      [] OTHER -> FALSE

VALID_PRIORITIES == <<Str(S_low), Str(S_medium), Str(S_high)>>
ALLOWED_UPDATE_FIELDS == <<"text", "completed", "completedAt", "priority", "dueDate">>

Range(q) == {q[i] : i \in 1..Len(q)}

\* DATE_REGEX.test(s): ^\d{4}-\d{2}-\d{2}$
DATE_REGEX(s) ==
    /\ Len(s) = 10
    /\ \A i \in {1, 2, 3, 4, 6, 7, 9, 10} : s[i] \in DigitSet
    /\ s[5] = "-"
    /\ s[8] = "-"

\* -------------------------------------------------------------- numbers

RECURSIVE ToDigits(_)
\* the decimal digits of a number >= 0, as the client writes an id into the URL
ToDigits(k) ==
    IF k < 10 THEN <<Digits[k + 1]>>
    ELSE Append(ToDigits(k \div 10), Digits[(k % 10) + 1])

DigitVal(c) == (CHOOSE i \in 1..10 : Digits[i] = c) - 1

RECURSIVE DecimalValue(_)
DecimalValue(s) ==
    IF s = <<>> THEN 0
    ELSE 10 * DecimalValue(SubSeq(s, 1, Len(s) - 1)) + DigitVal(s[Len(s)])

\* Number(req.params.id): a run of decimal digits is that number, any other
\* text of the inputs is NaN
Number(s) ==
    IF s # <<>> /\ \A i \in 1..Len(s) : s[i] \in DigitSet
    THEN [finite |-> TRUE, n |-> DecimalValue(s)]
    ELSE [finite |-> FALSE, n |-> 0]

\* ----------------------------------------------------------------- storage

U_ann == <<"a", "n", "n">>
U_bob == <<"b", "o", "b">>
Usernames == {U_ann, U_bob}

\* safeName: username.replace(/[^a-zA-Z0-9_-]/g, '')
safeName(username) == SelectSeq(username, LAMBDA c : c \in SafeChars)

FileKeys == {safeName(u) : u \in Usernames}

\* readTodosLocal: the list in the user's file, [] when there is no file
readTodos(files, username) == files[safeName(username)]

\* writeTodosLocal writing one file for all users
writeTodosShared(files, username, list) == [k \in DOMAIN files |-> list]

\* writeTodosLocal: the user's file is rewritten whole
writeTodos(files, username, list) == [files EXCEPT ![safeName(username)] = list]

Access(kind, username) == [kind |-> kind, key |-> safeName(username)]

\* ---------------------------------------------------------------- sessions

\* createSession: jwt.sign({username}, JWT_SECRET, {expiresIn: '24h'}); iat and
\* exp are in seconds
createSession(username, clock) ==
    [username |-> username, key |-> JWT_SECRET, exp |-> (clock \div 1000) + JWT_TTL]

\* getSession without the check of the expiry
getSessionNoExpiry(text, token, clock) ==
    IF text = <<>> /\ token.key = JWT_SECRET
    THEN [ok |-> TRUE, username |-> token.username]
    ELSE [ok |-> FALSE, username |-> <<>>]

\* getSession: jwt.verify(token, JWT_SECRET), null when the text is not a token,
\* the signature is not the server key's or the expiry has been reached
getSession(text, token, clock) ==
    IF text = <<>> /\ token.key = JWT_SECRET /\ (clock \div 1000) < token.exp
    THEN [ok |-> TRUE, username |-> token.username]
    ELSE [ok |-> FALSE, username |-> <<>>]

S_eyJ == <<"e", "y", "J">>

\* requireAuth.  The Authorization header is header.prefix followed by the
\* encoding of header.token, which begins "eyJ"
requireAuth(header, clock) ==
    IF ~header.present \/ ~startsWith(header.prefix \o S_eyJ, S_Bearer)
    THEN [ok |-> FALSE, username |-> <<>>]
    ELSE getSession(slice(header.prefix, 7), header.token, clock)

\* --------------------------------------------------------------- responses

NoToken == [username |-> <<>>, key |-> "", exp |-> 0]

\* status and JSON body: the error text, the todo records, the token
Reply(status, error, data) ==
    [status |-> status, error |-> error, data |-> data, token |-> NoToken]
AuthReply(status, error, token) ==
    [status |-> status, error |-> error, data |-> <<>>, token |-> token]
Unauthorized == Reply(401, "Unauthorized", <<>>)

\* what a handler did: its response, the files afterwards and its accesses
Outcome(r, files, accesses) == [res |-> r, files |-> files, io |-> accesses]

\* ---------------------------------------------------------- GET /api/todos

GetTodos(r, files, clock) ==
    LET auth == requireAuth(r.header, clock)
    IN  IF ~auth.ok THEN Outcome(Unauthorized, files, <<>>)
        ELSE Outcome(Reply(200, "", readTodos(files, auth.username)), files,
                     <<Access("read", auth.username)>>)

\* --------------------------------------------------------- POST /api/todos

NewTodo(id, text, priority, dueDate) ==
    [id |-> Num(id), text |-> Str(trim(text.s)), completed |-> Bool(FALSE),
     priority |-> priority, dueDate |-> dueDate, completedAt |-> Null]

\* todos.unshift(todo)
PushFront(list, todo) == <<todo>> \o list

\* todos.push(todo)
Push(list, todo) == Append(list, todo)

PostTodo(r, files, clock) ==
    LET auth == requireAuth(r.header, clock)
        text == r.body.text
        priority == IF r.body.priority = Undefined THEN Str(S_medium) ELSE r.body.priority
        dueDate == IF r.body.dueDate = Undefined THEN Null ELSE r.body.dueDate
        list == readTodos(files, auth.username)
        todo == NewTodo(clock, text, priority, dueDate)
    IN  IF ~auth.ok THEN Outcome(Unauthorized, files, <<>>)
        ELSE IF ~Truthy(text) \/ text.t # "string" \/ trim(text.s) = <<>>
        THEN Outcome(Reply(400, "text is required", <<>>), files, <<>>)
        ELSE IF Len(trim(text.s)) > MAX_TEXT_LENGTH
        THEN Outcome(Reply(400, "text must be 500 characters or less", <<>>), files, <<>>)
        ELSE IF priority \notin Range(VALID_PRIORITIES)
        THEN Outcome(Reply(400, "priority must be low, medium, or high", <<>>), files, <<>>)
        ELSE IF dueDate # Null /\ (dueDate.t # "string" \/ ~DATE_REGEX(dueDate.s))
        THEN Outcome(Reply(400, "dueDate must be in YYYY-MM-DD format", <<>>), files, <<>>)
        ELSE Outcome(Reply(201, "", <<todo>>),
                     writeTodos(files, auth.username, Push(list, todo)),
                     <<Access("read", auth.username), Access("write", auth.username)>>)

\* ------------------------------------------------ PATCH /api/todos/reorder

\* new Map(todos.map((t) => [t.id, t])).get(id): of the records under one id
\* the Map keeps the last
MapHas(list, id) == \E i \in 1..Len(list) : list[i].id = id
MapGet(list, id) == list[SetMax({i \in 1..Len(list) : list[i].id = id})]

\* ids.map((id) => todoMap.get(id)).filter(Boolean)
Reordered(list, ids) ==
    LET known == SelectSeq(ids, LAMBDA id : MapHas(list, id))
    IN  [i \in 1..Len(known) |-> MapGet(list, known[i])]

\* the length check and the write, the write first
CommitReorderUnchecked(files, username, list, reordered) ==
    Outcome(IF Len(reordered) # Len(list)
            THEN Reply(400, "ids do not match stored todos", <<>>)
            ELSE Reply(200, "", reordered),
            writeTodos(files, username, reordered),
            <<Access("read", username), Access("write", username)>>)

\* lines 210-214: the length check, then the write
CommitReorder(files, username, list, reordered) ==
    IF Len(reordered) # Len(list)
    THEN Outcome(Reply(400, "ids do not match stored todos", <<>>), files,
                 <<Access("read", username)>>)
    ELSE Outcome(Reply(200, "", reordered),
                 writeTodos(files, username, reordered),
                 <<Access("read", username), Access("write", username)>>)

PatchReorder(r, files, clock) ==
    LET auth == requireAuth(r.header, clock)
        ids == r.ids
        list == readTodos(files, auth.username)
        reordered == Reordered(list, ids.items)
    IN  IF ~auth.ok THEN Outcome(Unauthorized, files, <<>>)
        ELSE IF ~ids.isArray \/ \E i \in 1..Len(ids.items) : ids.items[i].t # "number"
        THEN Outcome(Reply(400, "ids must be an array of numbers", <<>>), files, <<>>)
        ELSE CommitReorder(files, auth.username, list, reordered)

\* ------------------------------------------------------ PUT /api/todos/:id

\* 'field' in req.body
In(field, body) == body[field] # Undefined

\* the loop over ALLOWED_UPDATE_FIELDS, which then stamps completedAt on a body
\* that completes the todo without one
UpdateOfStamping(body) ==
    [f \in {g \in {"text", "completed", "completedAt", "priority", "dueDate"} :
                body[g] # Undefined \/ (g = "completedAt" /\ body.completed.n = 1)} |->
        IF body[f] # Undefined THEN body[f] ELSE [t |-> "number", n |-> 1, s |-> <<>>]]

\* the loop over ALLOWED_UPDATE_FIELDS, copying every field of the body
UpdateOfAnyField(body) ==
    [f \in {g \in DOMAIN body : body[g] # Undefined} |-> body[f]]

\* the loop over ALLOWED_UPDATE_FIELDS
UpdateOf(body) ==
    [f \in {g \in Range(ALLOWED_UPDATE_FIELDS) : In(g, body)} |-> body[f]]

\* { ...todos[idx], ...update, id }
Spread(old, update, id) ==
    [f \in DOMAIN old \cup DOMAIN update \cup {"id"} |->
        IF f = "id" THEN Num(id)
        ELSE IF f \in DOMAIN update THEN update[f]
        ELSE old[f]]

\* todos.findIndex((t) => t.id === id), 0 for -1
FindIndex(list, id) ==
    LET hits == {i \in 1..Len(list) : list[i].id = Num(id)}
    IN  IF hits = {} THEN 0 ELSE SetMin(hits)

PutTodo(r, files, clock) ==
    LET auth == requireAuth(r.header, clock)
        id == Number(r.param)
        body == r.body
        list == readTodos(files, auth.username)
        idx == FindIndex(list, id.n)
        updated == Spread(list[idx], UpdateOf(body), id.n)
    IN  IF ~auth.ok THEN Outcome(Unauthorized, files, <<>>)
        ELSE IF ~id.finite THEN Outcome(Reply(400, "Invalid id", <<>>), files, <<>>)
        ELSE IF In("text", body) /\ (body.text.t # "string" \/ trim(body.text.s) = <<>>)
        THEN Outcome(Reply(400, "text must be a non-empty string", <<>>), files, <<>>)
        ELSE IF In("text", body) /\ Len(trim(body.text.s)) > MAX_TEXT_LENGTH
        THEN Outcome(Reply(400, "text must be 500 characters or less", <<>>), files, <<>>)
        ELSE IF In("priority", body) /\ body.priority \notin Range(VALID_PRIORITIES)
        THEN Outcome(Reply(400, "priority must be low, medium, or high", <<>>), files, <<>>)
        ELSE IF /\ In("dueDate", body)
                /\ body.dueDate # Null
                /\ (body.dueDate.t # "string" \/ ~DATE_REGEX(body.dueDate.s))
        THEN Outcome(Reply(400, "dueDate must be in YYYY-MM-DD format or null", <<>>),
                     files, <<>>)
        ELSE IF idx = 0
        THEN Outcome(Reply(404, "Todo not found", <<>>), files,
                     <<Access("read", auth.username)>>)
        ELSE Outcome(Reply(200, "", <<updated>>),
                     writeTodos(files, auth.username, [list EXCEPT ![idx] = updated]),
                     <<Access("read", auth.username), Access("write", auth.username)>>)

\* --------------------------------------------------- DELETE /api/todos/:id

DeleteTodo(r, files, clock) ==
    LET auth == requireAuth(r.header, clock)
        id == Number(r.param)
        list == readTodos(files, auth.username)
        filtered == SelectSeq(list, LAMBDA t : t.id # Num(id.n))
    IN  IF ~auth.ok THEN Outcome(Unauthorized, files, <<>>)
        ELSE IF ~id.finite THEN Outcome(Reply(400, "Invalid id", <<>>), files, <<>>)
        ELSE IF Len(filtered) = Len(list)
        THEN Outcome(Reply(404, "Todo not found", <<>>), files,
                     <<Access("read", auth.username)>>)
        ELSE Outcome(Reply(204, "", <<>>),
                     writeTodos(files, auth.username, filtered),
                     <<Access("read", auth.username), Access("write", auth.username)>>)

\* ------------------------------------------------------------------ routes

\* the route of a todo request
Route(r, files, clock) ==
    CASE r.op = "GET" -> GetTodos(r, files, clock)
      [] r.op = "POST" -> PostTodo(r, files, clock)
      [] r.op = "PATCH" -> PatchReorder(r, files, clock)
      [] r.op = "PUT" -> PutTodo(r, files, clock)
      [] r.op = "DELETE" -> DeleteTodo(r, files, clock)

\* ------------------------------------------------------------- authLimiter

\* a limiter whose window never passes
HitForever(l, clock) ==
    [hits |-> l.hits + 1, resetTime |-> IF l.hits = 0 THEN clock + WINDOW_MS ELSE l.resetTime]

\* express-rate-limit, memory store, one caller: the first request of a window
\* opens it, every request counts
Hit(l, clock) ==
    IF l.hits = 0 \/ clock >= l.resetTime
    THEN [hits |-> 1, resetTime |-> clock + WINDOW_MS]
    ELSE [hits |-> l.hits + 1, resetTime |-> l.resetTime]

TooMany == AuthReply(429, "Too many requests, please try again later", NoToken)

\* what an auth handler did: its response, users.json afterwards, its accesses
AuthOutcome(r, accounts, accesses) == [res |-> r, users |-> accounts, io |-> accesses]

UsersRead == [kind |-> "readUsers", key |-> <<>>]
UsersWrite == [kind |-> "writeUsers", key |-> <<>>]

\* ------------------------------------------------------------- passwords

\* bcrypt.hash(password, 12)
BcryptHash(password) == [scheme |-> "bcrypt", of |-> password]

\* verifyPassword: bcrypt.compare for a '$2' hash, the SHA-256 digest otherwise
verifyPassword(password, hash) == hash.of = password

\* users.find((u) => u.username === name), 0 when there is none
FindUser(accounts, name) ==
    LET hits == {i \in 1..Len(accounts) : accounts[i].username = name}
    IN  IF hits = {} THEN 0 ELSE SetMin(hits)

\* USERNAME_REGEX.test(s): ^[a-zA-Z0-9_-]{3,32}$
USERNAME_REGEX(s) == Len(s) >= 3 /\ Len(s) <= 32 /\ \A i \in 1..Len(s) : s[i] \in SafeChars

\* ---------------------------------------------------- POST /api/auth/login

\* Every account of these specifications carries a bcrypt hash, for which
\* upgradeHashIfLegacy returns at once.
PostLogin(r, accounts, l, clock) ==
    LET username == r.cred.username
        password == r.cred.password
        idx == FindUser(accounts, trim(username.s))
        user == accounts[idx]
    IN  IF l.hits > RATE_MAX THEN AuthOutcome(TooMany, accounts, <<>>)
        ELSE IF \/ ~Truthy(username) \/ username.t # "string"
                \/ ~Truthy(password) \/ password.t # "string"
        THEN AuthOutcome(AuthReply(400, "Username and password are required", NoToken),
                         accounts, <<>>)
        ELSE IF idx = 0 \/ ~verifyPassword(password.s, user.passwordHash)
        THEN AuthOutcome(AuthReply(401, "Invalid credentials", NoToken), accounts,
                         <<UsersRead>>)
        ELSE AuthOutcome(AuthReply(200, "", createSession(user.username, clock)),
                         accounts, <<UsersRead>>)

\* ------------------------------------------------- POST /api/auth/register

PostRegister(r, accounts, l, clock) ==
    LET username == r.cred.username
        password == r.cred.password
        clean == trim(username.s)
    IN  IF l.hits > RATE_MAX THEN AuthOutcome(TooMany, accounts, <<>>)
        ELSE IF ~Truthy(username) \/ username.t # "string" \/ ~USERNAME_REGEX(clean)
        THEN AuthOutcome(AuthReply(400, "Username must be 3-32 characters (letters, digits, _ -)", NoToken),
                         accounts, <<>>)
        ELSE IF ~Truthy(password) \/ password.t # "string" \/ Len(password.s) < 6
        THEN AuthOutcome(AuthReply(400, "Password must be at least 6 characters", NoToken),
                         accounts, <<>>)
        ELSE IF FindUser(accounts, clean) # 0
        THEN AuthOutcome(AuthReply(409, "Username already taken", NoToken), accounts,
                         <<UsersRead>>)
        ELSE AuthOutcome(AuthReply(201, "", createSession(clean, clock)),
                         Append(accounts, [username |-> clean,
                                           passwordHash |-> BcryptHash(password.s)]),
                         <<UsersRead, UsersWrite>>)

\* ------------------------------------------------------------------ inputs

T_milk == <<"b", "u", "y", " ", "m", "i", "l", "k">>
T_mom == <<" ", "c", "a", "l", "l", " ">>
T_blank == <<" ", "\t">>
T_padded == <<" ">> \o Rep("x", MAX_TEXT_LENGTH) \o <<"\t">>
T_long == Rep("x", MAX_TEXT_LENGTH + 1)
D_date == <<"2", "0", "2", "6", "-", "1", "1", "-", "0", "5">>
D_soon == <<"s", "o", "o", "n">>
S_urgent == <<"u", "r", "g", "e", "n", "t">>
S_yes == <<"y", "e", "s">>
P_secret == <<"s", "e", "c", "r", "e", "t", "1">>
P_short == <<"a", "b", "c", "1", "2">>
P_wrong == <<"l", "e", "t", "m", "e", "i", "n">>
\* the id of no record
UnknownId == Number(<<"7">>).n

U == Undefined

\* a JSON request body: the fields the handlers look at, one they do not (note)
Body(text, completed, completedAt, priority, dueDate, id, note) ==
    [text |-> text, completed |-> completed, completedAt |-> completedAt,
     priority |-> priority, dueDate |-> dueDate, id |-> id, note |-> note]

NoBody == Body(U, U, U, U, U, U, U)

CreateBodies ==
    { Body(Str(T_milk), Bool(FALSE), U, U, U, U, U),
      Body(Str(T_milk), U, U, Str(S_medium), Null, U, U),
      Body(Str(T_padded), U, U, Str(S_high), Str(D_date), U, U),
      NoBody,
      Body(Num(7), U, U, U, U, U, U),
      Body(Str(T_blank), U, U, U, U, U, U),
      Body(Str(T_long), U, U, U, U, U, U),
      Body(Str(T_milk), U, U, Str(S_urgent), U, U, U),
      Body(Str(T_milk), U, U, Null, U, U, U),
      Body(Str(T_milk), U, U, U, Str(D_soon), U, U),
      Body(Str(T_milk), U, U, U, Num(20261105), U, U) }

\* bodies a PUT accepts
GoodUpdates(clock) ==
    { NoBody,
      Body(U, U, U, U, U, Num(UnknownId), Str(S_yes)),
      Body(U, Bool(TRUE), U, U, U, U, U),
      Body(U, Bool(TRUE), Num(clock), U, U, U, U),
      Body(U, Bool(FALSE), Null, U, U, U, U),
      Body(Str(T_mom), U, U, Str(S_low), Str(D_date), Num(UnknownId), Str(S_yes)),
      Body(U, Str(S_yes), Str(D_soon), U, U, U, U),
      Body(Str(T_padded), U, U, U, Null, U, U) }

\* bodies a PUT rejects
BadUpdates ==
    { Body(Str(<<>>), U, U, U, U, U, U),
      Body(Num(5), U, U, U, U, U, U),
      Body(Str(T_long), U, U, U, U, U, U),
      Body(U, U, U, Str(S_urgent), U, U, U),
      Body(U, U, U, U, Str(D_soon), U, U),
      Body(U, U, U, U, Num(20261105), U, U) }

NoHeader == [present |-> FALSE, prefix |-> <<>>, token |-> NoToken]
Bearer(token) == [present |-> TRUE, prefix |-> S_Bearer, token |-> token]

\* a token signed with a key that is not the server's
Forged(clock) == [username |-> U_ann, key |-> "attacker-key", exp |-> (clock \div 1000) + JWT_TTL]

\* no header, a Basic header, a forged token, and every token handed out
Headers ==
    {NoHeader, Bearer(Forged(now))}
    \cup {[present |-> TRUE, prefix |-> <<"B", "a", "s", "i", "c", " ">>, token |-> t] :
            t \in {x \in sessions : x.username = U_ann}}
    \cup {Bearer(t) : t \in sessions}

Ids(list) == [i \in 1..Len(list) |-> list[i].id]
Reverse(q) == [i \in 1..Len(q) |-> q[Len(q) + 1 - i]]
Arr(items) == [isArray |-> TRUE, items |-> items]
NoIds == [isArray |-> FALSE, items |-> <<>>]

\* id sequences for a list: its order, the reverse, one id missing, one added,
\* one repeated, one replaced by an id of no record, no array, a string in it
IdsInputs(list) ==
    LET q == Ids(list)
    IN  {Arr(q), Arr(Reverse(q)), Arr(Append(q, Num(UnknownId))), NoIds, Arr(<<Str(<<"1">>)>>)}
        \cup (IF q = <<>> THEN {}
              ELSE {Arr(SubSeq(q, 1, Len(q) - 1)),
                    Arr([i \in 1..Len(q) |-> q[1]]),
                    Arr([q EXCEPT ![Len(q)] = Num(UnknownId)])})

StoredIds == UNION {{todos[k][i].id.n : i \in 1..Len(todos[k])} : k \in FileKeys}

\* the :id of a URL: the id of any stored record, an id of none, no number
Params == {ToDigits(n) : n \in StoredIds \cup {UnknownId}} \cup {<<"a", "b", "c">>}

\* the :id and body of a PUT: every accepted body for each record of the list,
\* every rejected body for one id, one body for each other id and for no number
UpdateInputs(list, clock) ==
    LET own == {ToDigits(list[i].id.n) : i \in 1..Len(list)}
        one == IF list = <<>> THEN ToDigits(UnknownId) ELSE ToDigits(list[1].id.n)
    IN  (own \X GoodUpdates(clock))
        \cup ({one} \X BadUpdates)
        \cup ((Params \ own) \X {Body(U, Bool(TRUE), Num(clock), U, U, U, U)})

NoCred == [username |-> U, password |-> U]
Cred(username, password) == [username |-> username, password |-> password]

RegisterCreds ==
    { Cred(Str(U_ann), Str(P_secret)),
      Cred(Str(<<" ">> \o U_bob \o <<" ">>), Str(P_secret)),
      Cred(Str(<<"a", "l">>), Str(P_secret)),
      Cred(Str(<<"a", " ", "n", "n">>), Str(P_secret)),
      Cred(Str(U_bob), Str(P_short)),
      Cred(U, Str(P_secret)) }

LoginCreds ==
    { Cred(Str(<<" ">> \o U_ann), Str(P_secret)),
      Cred(Str(U_bob), Str(P_secret)),
      Cred(Str(U_ann), Str(P_wrong)),
      Cred(Str(U_ann), Num(7)),
      Cred(U, Str(P_secret)) }

Request(op, header, param, body, ids, cred) ==
    [op |-> op, header |-> header, param |-> param, body |-> body, ids |-> ids,
     cred |-> cred]

\* what an unauthorised request carries: its handler never looks at it
ForCaller(h, inputs, default) == IF requireAuth(h, now).ok THEN inputs ELSE {default}

CallerList(h) ==
    IF requireAuth(h, now).ok THEN readTodos(todos, requireAuth(h, now).username) ELSE <<>>

\* ----------------------------------------------------------------- actions

\* a todo handler runs from its request to its response
Serve(r) ==
    LET out == Route(r, todos, now)
    IN  /\ quota > 0
        /\ quota' = quota - 1
        /\ req' = r
        /\ res' = out.res
        /\ todos' = out.files
        /\ io' = out.io
        /\ UNCHANGED <<users, sessions, limiter, now, handlers, client, net, view>>

Get ==
    \E h \in Headers :
        Serve(Request("GET", h, <<>>, NoBody, NoIds, NoCred))

Create ==
    \E h \in Headers :
        \E b \in ForCaller(h, CreateBodies, NoBody) :
            Serve(Request("POST", h, <<>>, b, NoIds, NoCred))

Reorder ==
    \E h \in Headers :
        \E ids \in ForCaller(h, IdsInputs(CallerList(h)), NoIds) :
            Serve(Request("PATCH", h, <<>>, NoBody, ids, NoCred))

Update ==
    \E h \in Headers :
        \E in \in ForCaller(h, UpdateInputs(CallerList(h), now), <<ToDigits(UnknownId), NoBody>>) :
            Serve(Request("PUT", h, in[1], in[2], NoIds, NoCred))

Delete ==
    \E h \in Headers :
        \E p \in ForCaller(h, Params, ToDigits(UnknownId)) :
            Serve(Request("DELETE", h, p, NoBody, NoIds, NoCred))

\* an auth handler runs from its request to its response; the limiter counts
\* the request first
ServeAuth(r, l, out) ==
    /\ req' = r
    /\ res' = out.res
    /\ users' = out.users
    /\ io' = out.io
    /\ limiter' = l
    /\ sessions' = IF out.res.token = NoToken THEN sessions
                   ELSE sessions \cup {out.res.token}
    /\ UNCHANGED <<todos, now, quota, handlers, client, net, view>>

Register ==
    \E c \in RegisterCreds :
        LET r == Request("REGISTER", NoHeader, <<>>, NoBody, NoIds, c)
            l == Hit(limiter, now)
        IN  /\ l.hits <= RATE_MAX + MaxExcess
            /\ ServeAuth(r, l, PostRegister(r, users, l, now))

Login ==
    \E c \in LoginCreds :
        LET r == Request("LOGIN", NoHeader, <<>>, NoBody, NoIds, c)
            l == Hit(limiter, now)
        IN  /\ l.hits <= RATE_MAX + MaxExcess
            /\ ServeAuth(r, l, PostLogin(r, users, l, now))

\* Date.now() moves on by a millisecond
TickMs ==
    /\ now % DAY_MS <= MaxMsTicks
    /\ now' = now + 1
    /\ UNCHANGED <<users, todos, sessions, limiter, quota, req, res, io,
                   handlers, client, net, view>>

\* ---------------------------------------------------------- specifications

NoRequest == Request("", NoHeader, <<>>, NoBody, NoIds, NoCred)
Account(username, password) == [username |-> username, passwordHash |-> BcryptHash(password)]

\* no auth handler has run in steps, and no browser has the client open
NoClient == [open |-> FALSE]
NoView == [computed |-> FALSE]
ServerAlone ==
    /\ handlers = <<>>
    /\ client = NoClient
    /\ net = <<>>
    /\ view = NoView

\* The server has just started on empty stores.
InitApi ==
    /\ ServerAlone
    /\ users = <<>>
    /\ todos = [k \in FileKeys |-> <<>>]
    /\ sessions = {}
    /\ limiter = [hits |-> 0, resetTime |-> 0]
    /\ now = 1
    /\ quota = MaxApiRequests
    /\ req = NoRequest
    /\ res = Reply(0, "", <<>>)
    /\ io = <<>>

\* A day on: bob registered and created a todo in the server's first
\* millisecond, so that his token is at its expiry; ann has just registered.
Init ==
    /\ ServerAlone
    /\ users = <<Account(U_bob, P_secret), Account(U_ann, P_secret)>>
    /\ todos = [k \in FileKeys |->
                  IF k = safeName(U_bob)
                  THEN <<NewTodo(1, Str(T_milk), Str(S_medium), Null)>>
                  ELSE <<>>]
    /\ sessions = {createSession(U_bob, 1), createSession(U_ann, DAY_MS + 1)}
    /\ limiter = [hits |-> 1, resetTime |-> DAY_MS + 1 + WINDOW_MS]
    /\ now = DAY_MS + 1
    /\ quota = MaxRequests
    /\ req = Request("REGISTER", NoHeader, <<>>, NoBody, NoIds,
                     Cred(Str(U_ann), Str(P_secret)))
    /\ res = AuthReply(201, "", createSession(U_ann, DAY_MS + 1))
    /\ io = <<UsersRead, UsersWrite>>

Next == Get \/ Create \/ Reorder \/ Update \/ Delete \/ TickMs

NextApi == Register \/ Login \/ Get \/ Create \/ Reorder \/ Update \/ Delete

\* the todo endpoints, called with ann's token, bob's expired one and none
Spec == Init /\ [][Next]_vars

\* the whole API from an empty server, every request within the limiter's
\* first window
SpecApi == InitApi /\ [][NextApi]_vars

\* ------------------------------------------------------------------ claims

\* this step handled a todo request: req' and res' are that request and its response
Served == quota' = quota - 1

\* the header is "Bearer <token>", the token signed with the server key and not
\* yet at its expiry
Authentic(h, clock) ==
    /\ h.present
    /\ h.prefix = S_Bearer
    /\ h.token.key = JWT_SECRET
    /\ clock < h.token.exp * 1000

\* the list of the user the request is authenticated as, before and after the step
Before == todos[safeName(req'.header.token.username)]
After == todos'[safeName(req'.header.token.username)]

Count(q, x) == Cardinality({i \in 1..Len(q) : q[i] = x})
IsPermutation(a, b) ==
    Len(a) = Len(b) /\ \A x \in Range(a) \cup Range(b) : Count(a, x) = Count(b, x)

\* C1: a reorder whose id sequence is not a permutation of the stored ids (an id
\* missing, an unknown id added, an id repeated) is answered 400 and leaves the
\* stored lists unchanged.
C1_ReorderRejectsNonPermutation ==
    [][(/\ Served
        /\ req'.op = "PATCH"
        /\ Authentic(req'.header, now)
        /\ ~(req'.ids.isArray /\ IsPermutation(req'.ids.items, Ids(Before))))
       => (res'.status = 400 /\ todos' = todos)]_vars

\* C2: the id a create returns is greater than every id already in the user's
\* list, two creates at the same clock value included, so that the ids of a
\* stored list are pairwise distinct.
C2_CreatedIdIsFresh ==
    [][(Served /\ req'.op = "POST" /\ res'.status = 201)
       => \A i \in 1..Len(Before) : res'.data[1].id.n > Before[i].id.n]_vars

\* the record a PUT is about, before the step, and the record it returns
OldRecord == Before[FindIndex(Before, Number(req'.param).n)]
Returned == res'.data[1]
Stored == After[FindIndex(Before, Number(req'.param).n)]

OnlyCompletedTrue == Body(U, Bool(TRUE), U, U, U, U, U)

\* C3 as stated: a PUT of {completed:true} on a todo whose completedAt is null
\* returns and stores a record whose completedAt is not null.
C3_CompletedSetsCompletedAt ==
    [][(/\ Served
        /\ req'.op = "PUT"
        /\ res'.status = 200
        /\ req'.body = OnlyCompletedTrue
        /\ OldRecord.completedAt = Null)
       => (Returned.completedAt # Null /\ Stored.completedAt # Null)]_vars

\* C3, amended: a PUT with completed = true on a todo whose completedAt is null
\* returns and stores completed = true and, as completedAt, the body's
\* completedAt when the body has one and null when it has none.
C3_CompletedAtOnlyFromBody ==
    [][(/\ Served
        /\ req'.op = "PUT"
        /\ res'.status = 200
        /\ req'.body.completed = Bool(TRUE)
        /\ OldRecord.completedAt = Null)
       => (/\ Returned.completed = Bool(TRUE)
           /\ Returned.completedAt =
                (IF req'.body.completedAt = U THEN Null ELSE req'.body.completedAt)
           /\ Stored = Returned)]_vars

C3_Witness ==
    /\ req.op = "PUT"
    /\ res.status = 200
    /\ req.body = OnlyCompletedTrue
    /\ res.data[1].completed = Bool(TRUE)
    /\ res.data[1].completedAt = Null

\* C4: a todo request with no Authorization header, a header that does not start
\* with "Bearer ", a token not signed with the server key or a token at or past
\* its expiry is answered 401, and its handler reads and writes no list.
C4_UnauthenticatedIsRejected ==
    [][(Served /\ ~Authentic(req'.header, now))
       => (res'.status = 401 /\ io' = <<>> /\ todos' = todos)]_vars

\* a token the server handed out, presented after its 24 hours
C4_Witness ==
    /\ req.op \in {"GET", "POST", "PATCH", "PUT", "DELETE"}
    /\ req.header.present
    /\ req.header.prefix = S_Bearer
    /\ req.header.token \in sessions
    /\ now >= req.header.token.exp * 1000
    /\ res.status = 401

\* lists another user's file might hold instead
OtherLists == {<<>>, <<NewTodo(5, Str(T_mom), Str(S_low), Null)>>}

\* C5: a todo request authenticated as A leaves the file of every other user B
\* unchanged, touches no file but A's, and gets the response it would get were
\* B's list any other list.
C5_UsersAreIsolated ==
    [][(Served /\ Authentic(req'.header, now))
       => \A B \in Usernames \ {req'.header.token.username} :
            /\ todos'[safeName(B)] = todos[safeName(B)]
            /\ \A i \in 1..Len(io') : io'[i].key = safeName(req'.header.token.username)
            /\ \A other \in OtherLists :
                 LET elsewhere == Route(req', [todos EXCEPT ![safeName(B)] = other], now)
                 IN  /\ elsewhere.res = res'
                     /\ elsewhere.files[safeName(req'.header.token.username)] = After]_vars

\* ann changes her list while bob's holds a record
C5_Witness ==
    /\ req.op \in {"POST", "PUT", "PATCH", "DELETE"}
    /\ req.header = Bearer(createSession(U_ann, 1))
    /\ req.header.token \in sessions
    /\ res.status \in {200, 201, 204}
    /\ todos[safeName(U_bob)] # <<>>
    /\ todos[safeName(U_bob)] # todos[safeName(U_ann)]

ErrorStatuses == {400, 401, 404, 409, 429}

\* C6: when a todo or auth handler answers 400, 401, 404, 409 or 429, users.json
\* and every user's list are what they were before the request.
C6_ErrorsWriteNothing ==
    [][(res'.status \in ErrorStatuses)
       => (users' = users /\ todos' = todos
           /\ \A i \in 1..Len(io') : io'[i].kind \in {"read", "readUsers"})]_vars

\* a register answered 409 while a list holds a record
C6_Witness ==
    /\ req.op = "REGISTER"
    /\ res.status = 409
    /\ users # <<>>
    /\ \E k \in FileKeys : todos[k] # <<>>

\* C7: after a PUT answered 200 the record differs from the record before only in
\* the allow-listed fields the body has, which take the body's values; its id (a
\* body's id notwithstanding), its position, every other record and every other
\* list are unchanged.
C7_UpdateFrame ==
    [][(Served /\ req'.op = "PUT" /\ res'.status = 200)
       => LET idx == FindIndex(Before, Number(req'.param).n)
              allowed == {f \in Range(ALLOWED_UPDATE_FIELDS) : req'.body[f] # U}
          IN  /\ idx # 0
              /\ Len(After) = Len(Before)
              /\ \A j \in 1..Len(Before) : j # idx => After[j] = Before[j]
              /\ \A k \in FileKeys :
                    k # safeName(req'.header.token.username) => todos'[k] = todos[k]
              /\ DOMAIN After[idx] = DOMAIN Before[idx]
              /\ After[idx].id = Before[idx].id
              /\ \A f \in DOMAIN Before[idx] :
                    After[idx][f] = (IF f \in allowed THEN req'.body[f] ELSE Before[idx][f])
              /\ Returned = After[idx]]_vars

\* a PUT whose body has another id, an unknown field and a new text
C7_Witness ==
    /\ req.op = "PUT"
    /\ res.status = 200
    /\ req.body.id = Num(UnknownId)
    /\ req.body.note # U
    /\ res.data[1].id = Num(Number(req.param).n)
    /\ res.data[1].id # req.body.id
    /\ res.data[1].text = req.body.text

\* C8: every stored todo has a text that is a trimmed string of 1..500
\* characters, a boolean completed, a priority of low/medium/high, a dueDate
\* that is null or YYYY-MM-DD and a completedAt that is a number or null.
C8_StoredTodosAreValid ==
    \A k \in FileKeys : \A i \in 1..Len(todos[k]) :
        LET t == todos[k][i]
        IN  /\ t.text.t = "string"
            /\ trim(t.text.s) = t.text.s
            /\ Len(t.text.s) >= 1
            /\ Len(t.text.s) <= MAX_TEXT_LENGTH
            /\ t.completed.t = "boolean"
            /\ t.priority \in {Str(S_low), Str(S_medium), Str(S_high)}
            /\ (t.dueDate = Null \/ (t.dueDate.t = "string" /\ DATE_REGEX(t.dueDate.s)))
            /\ t.completedAt.t \in {"number", "null"}

\* C9: a create answered 201 returns a record with completed = false,
\* completedAt = null, the body's priority or medium, the body's dueDate or null,
\* and the stored list is the list before with that record appended.
C9_CreateAppends ==
    [][(Served /\ req'.op = "POST" /\ res'.status = 201)
       => /\ Returned.completed = Bool(FALSE)
          /\ Returned.completedAt = Null
          /\ Returned.priority =
                (IF req'.body.priority = U THEN Str(S_medium) ELSE req'.body.priority)
          /\ Returned.dueDate = (IF req'.body.dueDate = U THEN Null ELSE req'.body.dueDate)
          /\ After = Before \o <<Returned>>
          /\ \A k \in FileKeys :
                k # safeName(req'.header.token.username) => todos'[k] = todos[k]]_vars

\* a create with neither priority nor dueDate, appended to a list that held a record
C9_Witness ==
    /\ req.op = "POST"
    /\ res.status = 201
    /\ req.body.priority = U
    /\ req.body.dueDate = U
    /\ res.data[1].priority = Str(S_medium)
    /\ LET list == todos[safeName(req.header.token.username)]
       IN  Len(list) >= 2 /\ list[Len(list)] = res.data[1]

\* C10: a DELETE of an id no stored record has is answered 404 and leaves the
\* list unchanged; otherwise it is answered 204 and the list is the list before
\* without exactly the one record of that id, the others in their order.
C10_DeleteRemovesOne ==
    [][(Served /\ req'.op = "DELETE" /\ Authentic(req'.header, now)
        /\ Number(req'.param).finite)
       => LET id == Num(Number(req'.param).n)
          IN  IF \A i \in 1..Len(Before) : Before[i].id # id
              THEN res'.status = 404 /\ After = Before
              ELSE /\ res'.status = 204
                   /\ Len(After) = Len(Before) - 1
                   /\ \E i \in 1..Len(Before) :
                        /\ Before[i].id = id
                        /\ After = SubSeq(Before, 1, i - 1) \o SubSeq(Before, i + 1, Len(Before))
                   /\ \A i \in 1..Len(After) : After[i].id # id]_vars

\* ------------------------------------------- auth handlers, await by await

\* register, login and migration requests of one run
MaxHandlers == 3

\* the SHA-256 digest of the accounts made before bcrypt
Sha256(password) == [scheme |-> "sha256", of |-> password]

U_dan == <<"d", "a", "n">>

RaceRegisterCreds ==
    { Cred(Str(U_ann), Str(P_secret)),
      Cred(Str(<<" ">> \o U_ann \o <<" ">>), Str(P_wrong)),
      Cred(Str(U_dan), Str(P_secret)),
      Cred(Str(U_bob), Str(P_secret)),
      Cred(Str(U_dan), Str(P_short)) }

RaceLoginCreds ==
    { Cred(Str(U_bob), Str(P_secret)),
      Cred(Str(U_bob), Str(P_wrong)) }

AuthRequest(op, c) == Request(op, NoHeader, <<>>, NoBody, NoIds, c)

\* a handler: its request, where it is suspended, the account list it read, the
\* limiter's count of it, its status once answered (0 before) and, for a
\* register, whether a 201 for its username had been sent when it arrived
Handler(op, c, pc, seen, l, status, late) ==
    [op |-> op, cred |-> c, pc |-> pc, seen |-> seen, limit |-> l, status |-> status,
     late |-> late]

\* the requests so far, the migrations they started not counted
Arrived == Cardinality({i \in 1..Len(handlers) : handlers[i].op # "MIGRATE"})

\* a register for this username has been answered 201
Created(name) ==
    \E i \in 1..Len(handlers) :
        /\ handlers[i].op = "REGISTER"
        /\ handlers[i].status = 201
        /\ trim(handlers[i].cred.username.s) = name

\* register, lines 131-145: the limiter, the validation, readUsers and the
\* look-up; a request that passes them all awaits bcrypt.hash
RegisterRead ==
    \E c \in RaceRegisterCreds :
        LET r == AuthRequest("REGISTER", c)
            l == Hit(limiter, now)
            out == PostRegister(r, users, l, now)
            passes == out.res.status = 201
        IN  /\ Arrived < MaxHandlers
            /\ limiter' = l
            /\ handlers' = Append(handlers,
                   Handler("REGISTER", c, IF passes THEN "hashing" ELSE "done", users, l,
                           IF passes THEN 0 ELSE out.res.status,
                           Created(trim(c.username.s))))
            /\ UNCHANGED <<users, todos, sessions, now, quota, req, res, io, client, net, view>>

\* register, lines 146-147: the account is pushed onto the list read before the
\* hash, and that list is written
RegisterWrite ==
    \E i \in 1..Len(handlers) :
        LET h == handlers[i]
            out == PostRegister(AuthRequest("REGISTER", h.cred), h.seen, h.limit, now)
        IN  /\ h.op = "REGISTER"
            /\ h.pc = "hashing"
            /\ users' = out.users
            /\ handlers' = [handlers EXCEPT ![i].pc = "written"]
            /\ UNCHANGED <<todos, sessions, limiter, now, quota, req, res, io, client, net, view>>

\* register, lines 148-149: the session and the 201
RegisterRespond ==
    \E i \in 1..Len(handlers) :
        LET h == handlers[i]
        IN  /\ h.op = "REGISTER"
            /\ h.pc = "written"
            /\ sessions' = sessions \cup {createSession(trim(h.cred.username.s), now)}
            /\ handlers' = [handlers EXCEPT ![i].pc = "done", ![i].status = 201]
            /\ UNCHANGED <<users, todos, limiter, now, quota, req, res, io, client, net, view>>

\* the test of line 70 turned round
IsBcrypt(user) == user.passwordHash.scheme = "bcrypt"

\* upgradeHashIfLegacy, line 70
IsLegacy(user) == user.passwordHash.scheme # "bcrypt"

\* login, lines 110-123: it writes nothing itself; after a login with a legacy
\* hash upgradeHashIfLegacy is left running, awaiting bcrypt.hash
LoginServe ==
    \E c \in RaceLoginCreds :
        LET r == AuthRequest("LOGIN", c)
            l == Hit(limiter, now)
            out == PostLogin(r, users, l, now)
            user == users[FindUser(users, trim(c.username.s))]
            migration == Handler("MIGRATE", Cred(Str(user.username), c.password), "hashing",
                                 <<>>, l, 0, FALSE)
        IN  /\ Arrived < MaxHandlers
            /\ limiter' = l
            /\ sessions' = IF out.res.token = NoToken THEN sessions
                           ELSE sessions \cup {out.res.token}
            /\ handlers' = Append(handlers, Handler("LOGIN", c, "done", users, l,
                                                    out.res.status, FALSE))
                           \o (IF out.res.status = 200 /\ IsLegacy(user)
                               THEN <<migration>> ELSE <<>>)
            /\ UNCHANGED <<users, todos, now, quota, req, res, io, client, net, view>>

\* upgradeHashIfLegacy, line 73: readUsers
MigrateRead ==
    \E i \in 1..Len(handlers) :
        /\ handlers[i].op = "MIGRATE"
        /\ handlers[i].pc = "hashing"
        /\ handlers' = [handlers EXCEPT ![i].pc = "read", ![i].seen = users]
        /\ UNCHANGED <<users, todos, sessions, limiter, now, quota, req, res, io,
                       client, net, view>>

\* upgradeHashIfLegacy, lines 74-78: the hash is replaced in the list read, and
\* that list is written
MigrateWrite ==
    \E i \in 1..Len(handlers) :
        LET h == handlers[i]
            idx == FindUser(h.seen, h.cred.username.s)
        IN  /\ h.op = "MIGRATE"
            /\ h.pc = "read"
            /\ users' = IF idx = 0 THEN users
                        ELSE [h.seen EXCEPT ![idx].passwordHash = BcryptHash(h.cred.password.s)]
            /\ handlers' = [handlers EXCEPT ![i].pc = "done"]
            /\ UNCHANGED <<todos, sessions, limiter, now, quota, req, res, io,
                           client, net, view>>

\* The server has just started with the one account of the days before bcrypt.
InitRace ==
    /\ users = <<[username |-> U_bob, passwordHash |-> Sha256(P_secret)]>>
    /\ todos = [k \in FileKeys |-> <<>>]
    /\ sessions = {}
    /\ limiter = [hits |-> 0, resetTime |-> 0]
    /\ now = 1
    /\ quota = 0
    /\ req = NoRequest
    /\ res = Reply(0, "", <<>>)
    /\ io = <<>>
    /\ ServerAlone

NextRace ==
    \/ RegisterRead \/ RegisterWrite \/ RegisterRespond
    \/ LoginServe \/ MigrateRead \/ MigrateWrite

\* register and login requests whose handlers interleave at their awaits
SpecRace == InitRace /\ [][NextRace]_vars

\* the registers answered 201 for a username
Registered(name) ==
    {i \in 1..Len(handlers) :
        /\ handlers[i].op = "REGISTER"
        /\ handlers[i].status = 201
        /\ trim(handlers[i].cred.username.s) = name}

RaceNames == {trim(c.username.s) : c \in RaceRegisterCreds}

\* C11: a valid register that arrives after a 201 for its username is answered
\* 409, at most one register per username is answered 201, and users.json never
\* holds two accounts of one username.
C11_OneAccountPerUsername ==
    /\ \A i \in 1..Len(handlers) :
          (/\ handlers[i].op = "REGISTER"
           /\ handlers[i].late
           /\ handlers[i].pc = "done"
           /\ handlers[i].status # 400) => handlers[i].status = 409
    /\ \A name \in RaceNames : Cardinality(Registered(name)) <= 1
    /\ \A i, j \in 1..Len(users) : users[i].username = users[j].username => i = j

\* C12: an account is in users.json for every register answered 201.
C12_RegisteredAccountStays ==
    \A i \in 1..Len(handlers) :
        (handlers[i].op = "REGISTER" /\ handlers[i].status = 201)
            => FindUser(users, trim(handlers[i].cred.username.s)) # 0

\* ------------------------------------------------ the limiter over windows

\* times the caller waits between attempts
MaxWaits == 2

\* a wrong password for an account that may not exist yet, and a registration
LimitCreds ==
    { [op |-> "LOGIN", cred |-> Cred(Str(U_ann), Str(P_wrong))],
      [op |-> "REGISTER", cred |-> Cred(Str(U_ann), Str(P_secret))] }

\* of an attempt the log keeps when it arrived and whether it was turned away
Attempt(at, status) == [at |-> at, limited |-> status = 429]

\* the caller sends a login or a register; authLimiter counts it, and its
\* handler runs unless the limiter answers
AttemptAuth ==
    \E c \in LimitCreds :
        LET r == AuthRequest(c.op, c.cred)
            l == Hit(limiter, now)
            out == IF c.op = "LOGIN" THEN PostLogin(r, users, l, now)
                   ELSE PostRegister(r, users, l, now)
        IN  /\ Len(handlers) <= RATE_MAX + MaxExcess
            /\ req' = r
            /\ res' = out.res
            /\ users' = out.users
            /\ io' = out.io
            /\ limiter' = l
            /\ sessions' = IF out.res.token = NoToken THEN sessions
                           ELSE sessions \cup {out.res.token}
            /\ handlers' = Append(handlers, Attempt(now, out.res.status))
            /\ UNCHANGED <<todos, now, quota, client, net, view>>

\* the waits so far: each is of a millisecond or of a millisecond less than the window
Waits == ((now - 1) \div (WINDOW_MS - 1)) + ((now - 1) % (WINDOW_MS - 1))

\* the caller waits
Wait ==
    \E d \in {1, WINDOW_MS - 1} :
        /\ Waits < MaxWaits
        /\ now' = now + d
        /\ UNCHANGED <<users, todos, sessions, limiter, quota, req, res, io,
                       handlers, client, net, view>>

InitLimit == InitApi

NextLimit == AttemptAuth \/ Wait

\* one caller's logins and registers over more than one window
SpecLimit == InitLimit /\ [][NextLimit]_vars

RECURSIVE WindowOf(_, _)
\* when the window of the i-th attempt opened: with the first attempt, and with
\* the first attempt made once a window has passed
WindowOf(log, i) ==
    IF i = 1 THEN log[1].at
    ELSE LET w == WindowOf(log, i - 1)
         IN  IF log[i].at >= w + WINDOW_MS THEN log[i].at ELSE w

\* the i-th attempt is the k-th of its window
PlaceInWindow(log, i) == Cardinality({j \in 1..i : WindowOf(log, j) = WindowOf(log, i)})

\* C13: of one caller's logins and registers the first 10 of a 15-minute window
\* are handled and every further one of that window is answered 429 with
\* users.json neither read nor written; the first attempt after the window has
\* passed is the first of a new window.
C13_TenAttemptsPerWindow ==
    [][(Len(handlers') = Len(handlers) + 1)
       => LET i == Len(handlers')
          IN  /\ (res'.status = 429) <=> (PlaceInWindow(handlers', i) > 10)
              /\ (res'.status = 429) => (io' = <<>> /\ users' = users)
              /\ (handlers # <<>> /\ now >= WindowOf(handlers, Len(handlers)) + WINDOW_MS)
                    => (PlaceInWindow(handlers', i) = 1 /\ res'.status # 429)]_vars

\* an 11th attempt was turned away, and an attempt after the window was handled
C13_Witness ==
    \E i \in 1..Len(handlers) : \E j \in 1..Len(handlers) :
        /\ i = 11
        /\ handlers[i].limited
        /\ handlers[i].at < handlers[1].at + WINDOW_MS
        /\ j > i
        /\ ~handlers[j].limited
        /\ res.status = 401

\* ------------------------------------------------- the client: App (app.ts)

\* user actions of one run of SpecClient and of SpecToggle, and HTTP calls
\* outstanding at once
MaxActions == 3
MaxToggles == 4
MaxInFlight == 2

PRIORITY_CYCLE == <<Str(S_low), Str(S_medium), Str(S_high)>>

\* Array.prototype.indexOf, 0 for -1
IndexOf(q, x) ==
    LET hits == {i \in 1..Len(q) : q[i] = x}
    IN  IF hits = {} THEN 0 ELSE SetMin(hits)

\* { ...t, ...payload }
Merge(t, payload) ==
    [f \in DOMAIN t \cup DOMAIN payload |-> IF f \in DOMAIN payload THEN payload[f] ELSE t[f]]

\* list.map((t) => (t.id === id ? with(t) : t)) for the three uses of it
Patched(list, id, payload) ==
    [i \in 1..Len(list) |-> IF list[i].id = Num(id) THEN Merge(list[i], payload) ELSE list[i]]
Replaced(list, id, todo) ==
    [i \in 1..Len(list) |-> IF list[i].id = Num(id) THEN todo ELSE list[i]]

\* next.splice(idx, 0, todo), idx counted from 0
Splice(list, idx, todo) ==
    LET k == IF idx > Len(list) THEN Len(list) ELSE idx
    IN  SubSeq(list, 1, k) \o <<todo>> \o SubSeq(list, k + 1, Len(list))

\* list.splice(k, 1), k counted from 1
Without(list, k) == SubSeq(list, 1, k - 1) \o SubSeq(list, k + 1, Len(list))

\* the JSON body of a payload: the fields it has
BodyOf(payload) == [f \in DOMAIN NoBody |-> IF f \in DOMAIN payload THEN payload[f] ELSE U]

\* a toggle that sends completed alone
ToggleCompletedOnly(todo, clock) == [completed |-> Bool(~Truthy(todo.completed))]

\* toggleTodo, lines 285-287
TogglePayload(todo, clock) ==
    IF Truthy(todo.completed)
    THEN [completed |-> Bool(FALSE), completedAt |-> Null]
    ELSE [completed |-> Bool(TRUE), completedAt |-> Num(clock)]

\* cyclePriority, line 344
NextPriority(todo) ==
    PRIORITY_CYCLE[((IndexOf(PRIORITY_CYCLE, todo.priority) - 1 + 1) % Len(PRIORITY_CYCLE)) + 1]

\* reorderTodo, lines 468-475: the dragged item is spliced out, then spliced in
\* at the index the target has in what is left
Moved(list, draggedId, targetId) ==
    LET fromIdx == FindIndex(list, draggedId)
        rest == Without(list, fromIdx)
        toIdx == FindIndex(rest, targetId)
    IN  Splice(rest, toIdx - 1, list[fromIdx])

NoTodo == NewTodo(0, Str(<<>>), Null, Null)

\* an HTTP call and what its callbacks close over; before and touched keep, for
\* the properties, the list before the action and whether anything else has
\* changed the list since
Call(kind, id, target, r, todo, idx, original, before) ==
    [kind |-> kind, id |-> id, target |-> target, r |-> r, todo |-> todo, idx |-> idx,
     original |-> original, before |-> before, stage |-> "sent",
     res |-> Reply(0, "", <<>>), touched |-> FALSE]

Touched(calls) == [i \in 1..Len(calls) |-> [calls[i] EXCEPT !.touched = TRUE]]

\* the authInterceptor's header
AuthHeader == Bearer(client.session)

ClientIds == {client.todos[i].id.n : i \in 1..Len(client.todos)}

\* what the user may type into the new-task form and the edit field
AddInputs ==
    { [text |-> T_mom, priority |-> Str(S_low), dueDate |-> <<>>],
      [text |-> T_milk, priority |-> Str(S_medium), dueDate |-> D_date] }
EditInputs == {T_mom, T_milk, T_blank}

\* a round trip of toggles or of priority cycles, kept for the properties: its
\* stage (odd: the action is done, even: it is confirmed), the todo, and both
\* lists at its start
NoRound == [kind |-> "", stage |-> 0, id |-> 0, k |-> 0, was |-> <<>>, stored |-> <<>>]

Mine == safeName(client.session.username)

CanAct == client.open /\ client.acts < client.budget /\ Len(net) < MaxInFlight

\* the user's action has changed the list to `list` and sent `call`
Acted(list, call, round) ==
    /\ client' = [client EXCEPT !.todos = list, !.acts = @ + 1, !.round = round]
    /\ net' = Append(Touched(net), call)
    /\ UNCHANGED <<users, todos, sessions, limiter, now, quota, req, res, io, handlers, view>>

\* addTodo, lines 259-280; the form's signals are what the user has typed
AddTodo ==
    \E in \in AddInputs :
        LET text == trim(in.text)
            payload == [text |-> Str(text), completed |-> Bool(FALSE), priority |-> in.priority,
                        dueDate |-> IF in.dueDate = <<>> THEN Null ELSE Str(in.dueDate)]
            r == Request("POST", AuthHeader, <<>>, BodyOf(payload), NoIds, NoCred)
        IN  /\ CanAct
            /\ text # <<>>
            /\ client' = [client EXCEPT !.acts = @ + 1, !.round = NoRound]
            /\ net' = Append(net, Call("add", 0, 0, r, NoTodo, 0, <<>>, client.todos))
            /\ UNCHANGED <<users, todos, sessions, limiter, now, quota, req, res, io,
                           handlers, view>>

\* toggleTodo, lines 282-290
ToggleTodo ==
    \E id \in ClientIds :
        LET list == client.todos
            k == FindIndex(list, id)
            todo == list[k]
            payload == TogglePayload(todo, now)
            r == Request("PUT", AuthHeader, ToDigits(id), BodyOf(payload), NoIds, NoCred)
            round == IF /\ net = <<>> /\ client.round.kind = "toggle"
                        /\ client.round.stage = 2 /\ client.round.id = id
                     THEN [client.round EXCEPT !.stage = 3]
                     ELSE IF net = <<>> /\ todo.completed = Bool(FALSE) /\ todo.completedAt = Null
                     THEN [kind |-> "toggle", stage |-> 1, id |-> id, k |-> k, was |-> list,
                           stored |-> todos[Mine]]
                     ELSE NoRound
        IN  /\ CanAct
            /\ Acted(Patched(list, id, payload),
                     Call("toggle", id, 0, r, todo, 0, <<>>, list), round)

\* deleteTodo, lines 308-316
DeleteTodoClient ==
    \E id \in ClientIds :
        LET list == client.todos
            idx == FindIndex(list, id) - 1
            todo == list[idx + 1]
            r == Request("DELETE", AuthHeader, ToDigits(id), NoBody, NoIds, NoCred)
        IN  /\ CanAct
            /\ Acted(SelectSeq(list, LAMBDA t : t.id # Num(id)),
                     Call("delete", id, 0, r, todo, idx, <<>>, list), NoRound)

\* cyclePriority, lines 341-347
CyclePriority ==
    \E id \in ClientIds :
        LET list == client.todos
            k == FindIndex(list, id)
            todo == list[k]
            payload == [priority |-> NextPriority(todo)]
            r == Request("PUT", AuthHeader, ToDigits(id), BodyOf(payload), NoIds, NoCred)
            round == IF /\ net = <<>> /\ client.round.kind = "priority"
                        /\ client.round.stage \in {2, 4} /\ client.round.id = id
                     THEN [client.round EXCEPT !.stage = @ + 1]
                     ELSE IF net = <<>>
                     THEN [kind |-> "priority", stage |-> 1, id |-> id, k |-> k, was |-> list,
                           stored |-> todos[Mine]]
                     ELSE NoRound
        IN  /\ CanAct
            /\ Acted(Patched(list, id, payload),
                     Call("priority", id, 0, r, todo, 0, <<>>, list), round)

\* commitEdit, lines 401-413, after startEdit(id) and the user's typing
CommitEdit ==
    \E id \in ClientIds : \E typed \in EditInputs :
        LET list == client.todos
            text == trim(typed)
            original == list[FindIndex(list, id)]
            payload == [text |-> Str(text)]
            r == Request("PUT", AuthHeader, ToDigits(id), BodyOf(payload), NoIds, NoCred)
        IN  /\ CanAct
            /\ text # <<>>
            /\ Str(text) # original.text
            /\ Acted(Patched(list, id, payload),
                     Call("edit", id, 0, r, original, 0, <<>>, list), NoRound)

\* onDrop and reorderTodo, lines 449-478, after onDragStart(draggedId)
Drop ==
    \E draggedId \in ClientIds : \E targetId \in ClientIds :
        LET original == client.todos
            list == Moved(original, draggedId, targetId)
            r == Request("PATCH", AuthHeader, <<>>, NoBody, Arr(Ids(list)), NoCred)
        IN  /\ CanAct
            /\ draggedId # targetId
            /\ Acted(list, Call("reorder", draggedId, targetId, r, NoTodo, 0, original,
                                original), NoRound)

\* the server handles a call that has reached it
ServeCall ==
    \E i \in 1..Len(net) :
        LET out == Route(net[i].r, todos, now)
        IN  /\ net[i].stage = "sent"
            /\ todos' = out.files
            /\ net' = [net EXCEPT ![i].stage = "answered", ![i].res = out.res]
            /\ UNCHANGED <<users, sessions, limiter, now, quota, req, res, io, handlers,
                           client, view>>

\* the catch blocks of lines 167-270: the store fails the read, the call is
\* answered 500
FailCall ==
    \E i \in 1..Len(net) :
        /\ net[i].stage = "sent"
        /\ net' = [net EXCEPT ![i].stage = "answered",
                              ![i].res = Reply(500, "Failed", <<>>)]
        /\ UNCHANGED <<users, todos, sessions, limiter, now, quota, req, res, io, handlers,
                       client, view>>

Ok(status) == status >= 200 /\ status < 300

\* the next callbacks of the six calls
OnNext(c, list) ==
    CASE c.kind = "add" -> <<c.res.data[1]>> \o list
      [] c.kind \in {"toggle", "priority", "edit"} -> Replaced(list, c.id, c.res.data[1])
      [] OTHER -> list

\* the error callbacks; addTodo's only shows the toast
OnError(c, list) ==
    CASE c.kind \in {"toggle", "priority", "edit"} -> Replaced(list, c.id, c.todo)
      [] c.kind = "delete" -> Splice(list, c.idx, c.todo)
      [] c.kind = "reorder" -> c.original
      [] OTHER -> list

ToastOf(kind) ==
    CASE kind = "add" -> "Failed to add task"
      [] kind = "delete" -> "Failed to delete task"
      [] kind = "priority" -> "Failed to update priority"
      [] kind = "reorder" -> "Failed to reorder tasks"
      [] OTHER -> "Failed to update task"

\* a response reaches the client and its callback runs; the toast's timer of
\* 3000 ms does not run out within the milliseconds of a run
Deliver ==
    \E i \in 1..Len(net) :
        LET c == net[i]
            ok == Ok(c.res.status)
            round == IF /\ ok /\ c.kind = client.round.kind /\ Len(net) = 1
                        /\ client.round.stage \in {1, 3, 5} /\ client.round.id = c.id
                     THEN [client.round EXCEPT !.stage = @ + 1]
                     ELSE NoRound
        IN  /\ c.stage = "answered"
            /\ client' = [client EXCEPT
                   !.todos = IF ok THEN OnNext(c, @) ELSE OnError(c, @),
                   !.toast = IF ok THEN @ ELSE ToastOf(c.kind),
                   !.round = round]
            /\ net' = Touched(Without(net, i))
            /\ UNCHANGED <<users, todos, sessions, limiter, now, quota, req, res, io,
                           handlers, view>>

\* ann logged in a moment ago in a browser that has loaded her list: two todos
\* made the day before
Loaded(budget) ==
    LET t1 == NewTodo(1, Str(T_milk), Str(S_medium), Null)
        t2 == NewTodo(2, Str(T_mom), Str(S_high), Str(D_date))
        token == createSession(U_ann, DAY_MS + 1)
    IN  /\ users = <<Account(U_ann, P_secret)>>
        /\ todos = [k \in FileKeys |-> IF k = safeName(U_ann) THEN <<t1, t2>> ELSE <<>>]
        /\ sessions = {token}
        /\ limiter = [hits |-> 1, resetTime |-> DAY_MS + 1 + WINDOW_MS]
        /\ now = DAY_MS + 1
        /\ quota = 0
        /\ req = NoRequest
        /\ res = Reply(0, "", <<>>)
        /\ io = <<>>
        /\ handlers = <<>>
        /\ client = [open |-> TRUE, session |-> token, todos |-> <<t1, t2>>, toast |-> "",
                     acts |-> 0, budget |-> budget, round |-> NoRound]
        /\ net = <<>>
        /\ view = NoView

InitClient == Loaded(MaxActions)

\* Date.now() moves on in the browser and on the server
TickClient ==
    /\ client.open
    /\ TickMs

NextClient ==
    \/ AddTodo \/ ToggleTodo \/ DeleteTodoClient \/ CyclePriority \/ CommitEdit \/ Drop
    \/ ServeCall \/ FailCall \/ Deliver \/ TickClient

\* the browser and the server: the calls are handled, and called back, in any order
SpecClient == InitClient /\ [][NextClient]_vars

InitToggle == Loaded(MaxToggles)

NextToggle == AddTodo \/ ToggleTodo \/ ServeCall \/ FailCall \/ Deliver \/ TickClient

\* the browser and the server when the user only adds and toggles
SpecToggle == InitToggle /\ [][NextToggle]_vars

\* this step delivers a failure to the call c, nothing else having changed the
\* list since the action that sent c
FailsAlone(c) ==
    /\ c \in Range(net)
    /\ c.stage = "answered"
    /\ ~Ok(c.res.status)
    /\ ~c.touched
    /\ Len(net') = Len(net) - 1
    /\ \E i \in 1..Len(net) : net[i] = c /\ net' = Touched(Without(net, i))

Mutations == {"toggle", "priority", "edit", "delete", "reorder"}

\* C14: when the request of a toggleTodo, cyclePriority, commitEdit, deleteTodo
\* or reorderTodo fails and nothing else has changed the list since the action,
\* the list is again, element for element, the list before the action, and the
\* toast is not empty.
C14_FailureRestoresList ==
    [][\A c \in Range(net) :
          (c.kind \in Mutations /\ FailsAlone(c))
              => (client'.todos = c.before /\ client'.toast # "")]_vars

\* C15: whenever no call is outstanding, the client's list holds exactly the
\* records of the server's list of that user.
C15_ClientMatchesServer ==
    (client.open /\ net = <<>>) => IsPermutation(client.todos, todos[Mine])

\* C16: toggleTodo on an incomplete todo sets completed = true and completedAt =
\* Date.now(), on a completed one completed = false and completedAt = null, in
\* the list and in the request; after two toggles of a todo that began with
\* completed = false and completedAt = null, each confirmed before the next
\* action, the todo has completed = false and completedAt = null on the client
\* and on the server, and its other fields are what they were at the start.
C16_ToggleRoundTrip ==
    [][/\ (Len(net') = Len(net) + 1 /\ net'[Len(net')].kind = "toggle")
            => LET c == net'[Len(net')]
                   k == FindIndex(client.todos, c.id)
                   want == IF Truthy(client.todos[k].completed)
                           THEN [completed |-> Bool(FALSE), completedAt |-> Null]
                           ELSE [completed |-> Bool(TRUE), completedAt |-> Num(now)]
               IN  /\ client'.todos[k] = Merge(client.todos[k], want)
                   /\ c.r.body = BodyOf(want)
       /\ (client'.round.kind = "toggle" /\ client'.round.stage = 4)
            => LET r == client'.round
                   j == FindIndex(r.stored, r.id)
               IN  /\ r.was[r.k].completed = Bool(FALSE)
                   /\ r.was[r.k].completedAt = Null
                   /\ client'.todos[r.k] = r.was[r.k]
                   /\ todos'[Mine][j] =
                         Merge(r.stored[j], [completed |-> Bool(FALSE), completedAt |-> Null])]_vars

\* C17: a drop of the dragged todo onto another leaves a permutation of the list
\* in which the dragged todo has the index the target had, the others keep their
\* order, and the ids sent are those of the new list.
C17_DropTakesTargetIndex ==
    [][(Len(net') = Len(net) + 1 /\ net'[Len(net')].kind = "reorder")
          => LET c == net'[Len(net')]
                 old == client.todos
                 new == client'.todos
                 from == FindIndex(old, c.id)
                 to == FindIndex(old, c.target)
             IN  /\ IsPermutation(old, new)
                 /\ new[to] = old[from]
                 /\ Without(new, to) = Without(old, from)
                 /\ c.r.ids = Arr(Ids(new))]_vars

\* ------------------------------------------------- derived state of the client
\* The computed signals of the App component: the archived set, the overdue set
\* and the filtered list, as functions of the list, the clock, the time zone and
\* the three filter signals.

MaxListLen == 3

ARCHIVE_THRESHOLD_MS == 5 * 24 * 60 * 60 * 1000

\* the test with the threshold itself counted as past it
archivedIdsFromThreshold(list, clock) ==
    {list[i].id : i \in {j \in 1..Len(list) :
                            /\ Truthy(list[j].completed)
                            /\ Truthy(list[j].completedAt)
                            /\ clock - list[j].completedAt.n >= ARCHIVE_THRESHOLD_MS}}

\* the ids of the todos that pass the test
archivedIds(list, clock) ==
    {list[i].id : i \in {j \in 1..Len(list) :
                            /\ Truthy(list[j].completed)
                            /\ Truthy(list[j].completedAt)
                            /\ clock - list[j].completedAt.n > ARCHIVE_THRESHOLD_MS}}

RECURSIVE Split(_)
\* s.split('-')
Split(s) ==
    IF \A i \in 1..Len(s) : s[i] # "-" THEN <<s>>
    ELSE LET k == SetMin({i \in 1..Len(s) : s[i] = "-"})
         IN  <<SubSeq(s, 1, k - 1)>> \o Split(SubSeq(s, k + 1, Len(s)))

\* The Date arithmetic of ECMAScript. A time value is kept as whole days and
\* the milliseconds of the day, both counted from the epoch, which orders time
\* values as their milliseconds do.
DayFromYear(y) ==
    365 * (y - 1970) + ((y - 1969) \div 4) - ((y - 1901) \div 100) + ((y - 1601) \div 400)

InLeapYear(y) == (y % 4 = 0 /\ y % 100 # 0) \/ y % 400 = 0

MonthLengths(y) ==
    <<31, IF InLeapYear(y) THEN 29 ELSE 28, 31, 30, 31, 30, 31, 31, 30, 31, 30, 31>>

RECURSIVE DaysBefore(_, _)
\* the days of year y before its month m, months counted from 0
DaysBefore(y, m) == IF m = 0 THEN 0 ELSE DaysBefore(y, m - 1) + MonthLengths(y)[m]

\* MakeDay: a month outside 0..11 carries into the year, a day outside the month
\* carries into the next months
MakeDay(year, month, date) ==
    LET ym == year + (month \div 12)
        mn == month % 12
    IN  DayFromYear(ym) + DaysBefore(ym, mn) + date - 1

TimeValue(day, ms) == <<day + (ms \div DAY_MS), ms % DAY_MS>>

\* a < b on two Dates
Earlier(a, b) == a[1] < b[1] \/ (a[1] = b[1] /\ a[2] < b[2])

\* new Date(y, m, d): midnight of that day in the local zone, zone being local
\* time minus UTC in milliseconds; a year 0..99 is read as 1900 + year
LocalDate(y, m, d, zone) ==
    TimeValue(MakeDay(IF y \in 0..99 THEN 1900 + y ELSE y, m, d), 0 - zone)

\* today = new Date() without the setHours
ThisInstant(clock, zone) == TimeValue(0, clock)

\* today = new Date(); today.setHours(0, 0, 0, 0)
StartOfToday(clock, zone) == TimeValue((clock + zone) \div DAY_MS, 0 - zone)

\* the second filter of overdueIds; a part that is missing or no number makes
\* an Invalid Date, which is before nothing
DueBefore(dueDate, today, zone) ==
    LET parts == Split(dueDate)
        part(i) == IF i <= Len(parts) THEN Number(parts[i]) ELSE Number(<<>>)
    IN  /\ \A i \in 1..3 : part(i).finite
        /\ Earlier(LocalDate(part(1).n, part(2).n - 1, part(3).n, zone), today)

overdueIds(list, clock, zone) ==
    LET today == StartOfToday(clock, zone)
    IN  {list[i].id : i \in {j \in 1..Len(list) :
                                /\ ~Truthy(list[j].completed)
                                /\ Truthy(list[j].dueDate)
                                /\ DueBefore(list[j].dueDate.s, today, zone)}}

S_all == <<"a", "l", "l">>
S_active == <<"a", "c", "t", "i", "v", "e">>
S_completed == <<"c", "o", "m", "p", "l", "e", "t", "e", "d">>

\* a comparator that orders nothing
Unordered(a, b) == 0

\* the comparator of the sort
ByCompleted(a, b) ==
    IF a.completed # b.completed THEN (IF Truthy(a.completed) THEN 1 ELSE -1) ELSE 0

RECURSIVE Sorted(_)
\* Array.prototype.sort with that comparator; the sort is stable, so an element
\* goes behind the last of the elements before it that it does not precede
Sorted(q) ==
    IF q = <<>> THEN <<>>
    ELSE LET head == Sorted(SubSeq(q, 1, Len(q) - 1))
             x == q[Len(q)]
             stay == {i \in 1..Len(head) : ByCompleted(head[i], x) <= 0}
             k == IF stay = {} THEN 0 ELSE SetMax(stay)
         IN  SubSeq(head, 1, k) \o <<x>> \o SubSeq(head, k + 1, Len(head))

filteredTodos(list, clock, f, p, showCompleted) ==
    LET archived == archivedIds(list, clock)
        keep(t) ==
            IF t.id \in archived THEN FALSE
            ELSE IF ~showCompleted /\ Truthy(t.completed) THEN FALSE
            ELSE LET statusOk == \/ f = S_all
                                 \/ IF f = S_active THEN ~Truthy(t.completed)
                                                    ELSE Truthy(t.completed)
                     priorityOk == p = Str(S_all) \/ t.priority = p
                 IN  statusOk /\ priorityOk
    IN  Sorted(SelectSeq(list, keep))

\* this.todos().filter((t) => this.archivedIds().has(t.id))
archivedTodos(list, clock) ==
    SelectSeq(list, LAMBDA t : t.id \in archivedIds(list, clock))

activeCount(list, clock) ==
    Len(SelectSeq(list, LAMBDA t : ~Truthy(t.completed) /\ t.id \notin archivedIds(list, clock)))

\* the count with the archived todos in it
completedCountAll(list, clock) ==
    Len(SelectSeq(list, LAMBDA t : Truthy(t.completed)))

completedCount(list, clock) ==
    Len(SelectSeq(list, LAMBDA t : Truthy(t.completed) /\ t.id \notin archivedIds(list, clock)))

\* what the template reads of the computed signals
Computed ==
    [computed |-> TRUE,
     overdue |-> overdueIds(client.todos, now, client.zone),
     archived |-> archivedIds(client.todos, now),
     archivedTodos |-> archivedTodos(client.todos, now),
     activeCount |-> activeCount(client.todos, now),
     completedCount |-> completedCount(client.todos, now),
     filtered |-> filteredTodos(client.todos, now, client.filter,
                                client.priorityFilter, client.showCompleted)]

Viewing == client.open /\ "filter" \in DOMAIN client

SetFilter ==
    /\ Viewing
    /\ \E f \in {S_all, S_active, S_completed} :
          /\ f # client.filter
          /\ client' = [client EXCEPT !.filter = f]
    /\ view' = NoView
    /\ UNCHANGED <<serverVars, handlers, net>>

SetPriorityFilter ==
    /\ Viewing
    /\ \E p \in {Str(S_all)} \cup Range(VALID_PRIORITIES) :
          /\ p # client.priorityFilter
          /\ client' = [client EXCEPT !.priorityFilter = p]
    /\ view' = NoView
    /\ UNCHANGED <<serverVars, handlers, net>>

ToggleShowCompleted ==
    /\ Viewing
    /\ client' = [client EXCEPT !.showCompleted = ~client.showCompleted]
    /\ view' = NoView
    /\ UNCHANGED <<serverVars, handlers, net>>

\* the template reads the signals after a change and they are computed again
Render ==
    /\ Viewing
    /\ view = NoView
    /\ view' = Computed
    /\ UNCHANGED <<serverVars, handlers, client, net>>

RECURSIVE Pad(_, _)
Pad(s, width) == IF Len(s) >= width THEN s ELSE Pad(<<"0">> \o s, width)

\* a date as the date input of the browser writes it
DateString(y, m, d) ==
    Pad(ToDigits(y), 4) \o <<"-">> \o Pad(ToDigits(m), 2) \o <<"-">> \o Pad(ToDigits(d), 2)

\* The local calendar date of the lists below: a day of January 1970, which
\* keeps the milliseconds of the clock within the integers of TLC.
Today == [y |-> 1970, m |-> 1, d |-> 10]

\* local time minus UTC: the zones at both ends and UTC
Zones == {0 - 11 * 60 * 60 * 1000, 0, 14 * 60 * 60 * 1000}

\* the first and the last millisecond of the local day
TimesOfDay == {0, DAY_MS - 1}

Done(todo, at) == Merge(todo, [completed |-> Bool(TRUE), completedAt |-> at])

\* The todos of the lists: due the day before, today, in the year before and
\* in the month after; completed one millisecond more than the threshold ago,
\* the threshold ago and one millisecond less; completed with no completedAt;
\* incomplete with a completedAt that a PUT left.
ViewTodos(clock) ==
    LET yesterday == Str(DateString(Today.y, Today.m, Today.d - 1))
        today == Str(DateString(Today.y, Today.m, Today.d))
        lastYear == Str(DateString(Today.y - 1, 12, 31))
        nextMonth == Str(DateString(Today.y, Today.m + 1, 1))
        old == clock - ARCHIVE_THRESHOLD_MS
    IN  {NewTodo(1, Str(T_milk), Str(S_high), yesterday),
         NewTodo(2, Str(T_milk), Str(S_medium), today),
         NewTodo(3, Str(T_milk), Str(S_low), lastYear),
         Done(NewTodo(4, Str(T_milk), Str(S_high), yesterday), Num(old - 1)),
         Done(NewTodo(5, Str(T_milk), Str(S_medium), Null), Num(old)),
         Done(NewTodo(6, Str(T_milk), Str(S_low), nextMonth), Num(old + 1)),
         Merge(NewTodo(7, Str(T_milk), Str(S_high), nextMonth), [completedAt |-> Num(old - 1)]),
         Done(NewTodo(8, Str(T_milk), Str(S_medium), today), Null)}

\* the lists of at most MaxListLen of them, each todo once
ViewLists(clock) ==
    {q \in UNION {[1..n -> ViewTodos(clock)] : n \in 0..MaxListLen} :
        \A i, j \in 1..Len(q) : i # j => q[i] # q[j]}

\* ann's list is loaded; the signals have their initial values
InitViews ==
    \E zone \in Zones, time \in TimesOfDay :
        LET clock == (Today.d - 1) * DAY_MS - zone + time
        IN  \E list \in ViewLists(clock) :
               /\ users = <<Account(U_ann, P_secret)>>
               /\ todos = [k \in FileKeys |-> IF k = safeName(U_ann) THEN list ELSE <<>>]
               /\ sessions = {createSession(U_ann, clock)}
               /\ limiter = [hits |-> 1, resetTime |-> clock + WINDOW_MS]
               /\ now = clock
               /\ quota = 0
               /\ req = NoRequest
               /\ res = Reply(0, "", <<>>)
               /\ io = <<>>
               /\ handlers = <<>>
               /\ client = [open |-> TRUE, todos |-> list, filter |-> S_all,
                            priorityFilter |-> Str(S_all), showCompleted |-> FALSE,
                            zone |-> zone, today |-> Today]
               /\ net = <<>>
               /\ view = NoView

NextViews == SetFilter \/ SetPriorityFilter \/ ToggleShowCompleted \/ Render

SpecViews == InitViews /\ [][NextViews]_vars

\* C18: a todo is in the archived set exactly when it is completed, has a
\* completedAt and now - completedAt is more than 432000000 ms: one completed
\* 5 days and 1 ms ago is in it, one completed 5 days ago or 1 ms less is not,
\* and no incomplete todo is.
C18_ArchivedSet ==
    view.computed
      => \A i \in 1..Len(client.todos) :
            LET t == client.todos[i]
                member == t.id \in view.archived
            IN  /\ member <=> (/\ t.completed = Bool(TRUE)
                           /\ t.completedAt # Null
                           /\ now - t.completedAt.n > 432000000)
                /\ (t.completed = Bool(TRUE) /\ t.completedAt = Num(now - 432000000 - 1)) => member
                /\ (t.completedAt = Num(now - 432000000)) => ~member
                /\ (t.completedAt = Num(now - 432000000 + 1)) => ~member
                /\ (t.completed = Bool(FALSE)) => ~member

HasTodo(list, k) == \E i \in 1..Len(list) : list[i].id = Num(k)

C18_Witness ==
    /\ view.computed
    /\ HasTodo(client.todos, 4) /\ HasTodo(client.todos, 5) /\ HasTodo(client.todos, 7)
    /\ view.archived = {Num(4)}

\* a dueDate and the local date as year, month and day
CalendarDate(s) ==
    <<DecimalValue(SubSeq(s, 1, 4)), DecimalValue(SubSeq(s, 6, 7)), DecimalValue(SubSeq(s, 9, 10))>>

CalendarBefore(a, b) ==
    a[1] < b[1] \/ (a[1] = b[1] /\ (a[2] < b[2] \/ (a[2] = b[2] /\ a[3] < b[3])))

\* C19: a todo is in the overdue set exactly when it is incomplete, has a
\* dueDate and that date is, as a calendar date, before the local date of today;
\* a todo due today is not in it at the first or the last millisecond of the day,
\* and no completed todo is.
C19_OverdueSet ==
    view.computed
      => \A i \in 1..Len(client.todos) :
            LET t == client.todos[i]
                member == t.id \in view.overdue
                today == <<client.today.y, client.today.m, client.today.d>>
            IN  /\ member <=> (/\ t.completed = Bool(FALSE)
                               /\ t.dueDate # Null
                               /\ CalendarBefore(CalendarDate(t.dueDate.s), today))
                /\ (t.dueDate # Null /\ CalendarDate(t.dueDate.s) = today) => ~member
                /\ (t.completed = Bool(TRUE)) => ~member

C19_Witness ==
    /\ view.computed
    /\ (now + client.zone) % DAY_MS = DAY_MS - 1
    /\ client.zone < 0
    /\ HasTodo(client.todos, 1) /\ HasTodo(client.todos, 2) /\ HasTodo(client.todos, 4)
    /\ view.overdue = {Num(1)}

\* C20: for every list and every setting of the status filter, the priority
\* filter and show-completed, the filtered list holds exactly the todos that are
\* not in the archived set, are incomplete or shown as completed, and match both
\* filters; every incomplete todo in it is before every completed one, and each
\* of the two groups is in the order of the base list.
C20_FilteredList ==
    view.computed
      => LET incomplete(t) == t.completed = Bool(FALSE)
             completed(t) == t.completed = Bool(TRUE)
             member(t) ==
                 /\ t.id \notin view.archived
                 /\ incomplete(t) \/ client.showCompleted
                 /\ \/ client.filter = S_all
                    \/ client.filter = S_active /\ incomplete(t)
                    \/ client.filter = S_completed /\ completed(t)
                 /\ client.priorityFilter = Str(S_all) \/ t.priority = client.priorityFilter
             kept == SelectSeq(client.todos, member)
             out == view.filtered
         IN  /\ IsPermutation(out, kept)
             /\ \A i, j \in 1..Len(out) : (completed(out[i]) /\ incomplete(out[j])) => j < i
             /\ SelectSeq(out, incomplete) = SelectSeq(kept, incomplete)
             /\ SelectSeq(out, completed) = SelectSeq(kept, completed)

C20_Witness ==
    /\ view.computed
    /\ client.showCompleted
    /\ client.priorityFilter = Str(S_medium)
    /\ Len(client.todos) > 2
    /\ client.todos[1].id \in view.archived
    /\ view.filtered = <<client.todos[Len(client.todos)], client.todos[Len(client.todos) - 1]>>

\* C21: in every computed view activeCount is the number of incomplete todos,
\* completedCount the number of completed todos outside the archived set, and
\* the two with the number of archived todos make the length of the list,
\* whatever the filters are.
C21_CountsPartitionList ==
    view.computed
      => LET list == client.todos
             incomplete == {i \in 1..Len(list) : list[i].completed = Bool(FALSE)}
             shown == {i \in 1..Len(list) : /\ list[i].completed = Bool(TRUE)
                                            /\ list[i].id \notin view.archived}
         IN  /\ view.activeCount = Cardinality(incomplete)
             /\ view.completedCount = Cardinality(shown)
             /\ view.activeCount + view.completedCount + Len(view.archivedTodos) = Len(list)

C21_Witness ==
    /\ view.computed
    /\ client.filter = S_active
    /\ client.priorityFilter = Str(S_low)
    /\ view.activeCount = 1
    /\ view.completedCount = 1
    /\ Len(view.archivedTodos) = 1

\* low to medium, medium to high, high to low
CycleOf(priority) ==
    CASE priority = Str(S_low) -> Str(S_medium)
      [] priority = Str(S_medium) -> Str(S_high)
      [] priority = Str(S_high) -> Str(S_low)

\* C22: cyclePriority takes the todo's priority from low to medium, from medium
\* to high and from high to low, in the list and in the request, and changes no
\* other field of the todo and no other todo; after three cycles of one todo,
\* each confirmed before the next action, its priority is what it was.
C22_CyclePriority ==
    [][/\ (Len(net') = Len(net) + 1 /\ net'[Len(net')].kind = "priority")
            => LET c == net'[Len(net')]
                   k == FindIndex(client.todos, c.id)
                   next == CycleOf(client.todos[k].priority)
               IN  /\ client'.todos = [client.todos EXCEPT ![k].priority = next]
                   /\ c.r.body.priority = next
       /\ (client'.round.kind = "priority" /\ client'.round.stage = 6)
            => LET r == client'.round
               IN  client'.todos[r.k].priority = r.was[r.k].priority]_vars

\* ------------------------------------ the session: AuthService, Login, App
\* The browser with its sessionStorage: the AuthService and its restore on a
\* page load, the Login component, the authInterceptor, and the App's
\* subscription to isLoggedIn that loads and clears the list.

\* user actions of one run of SpecSession
MaxSessionActs == 3

\* the text of a token: a JWT begins "eyJ"
Jwt(token) == [t |-> "string", n |-> 0, s |-> S_eyJ, jwt |-> token]

\* the value of sessionStorage.getItem(SESSION_KEY): no item, or a text that
\* is empty, is not JSON, or is the JSON of a value
NoItem == [present |-> FALSE, empty |-> FALSE, parses |-> FALSE, value |-> Null]
JsonText(value) == [present |-> TRUE, empty |-> FALSE, parses |-> TRUE, value |-> value]
EmptyText == [present |-> TRUE, empty |-> TRUE, parses |-> FALSE, value |-> Null]
NotJson == [present |-> TRUE, empty |-> FALSE, parses |-> FALSE, value |-> Null]
Obj(token, username) == [t |-> "object", token |-> token, username |-> username]

\* JSON.stringify(session)
Stringify(token, username) == JsonText(Obj(Jwt(token), Str(username)))

NoSession == [token |-> NoToken, username |-> <<>>]

\* _restore without the test of the two fields
RestoreUnchecked(item) ==
    IF ~item.present \/ item.empty \/ ~item.parses \/ item.value.t # "object"
    THEN NoSession
    ELSE [token |-> IF "jwt" \in DOMAIN item.value.token THEN item.value.token.jwt ELSE NoToken,
          username |-> item.value.username.s]

\* _restore, lines 38-48: JSON.parse throws on a text that is not JSON
Restore(item) ==
    IF ~item.present \/ item.empty THEN NoSession
    ELSE IF ~item.parses THEN NoSession
    ELSE IF item.value.t # "object" THEN NoSession
    ELSE IF ~Truthy(item.value.token) \/ ~Truthy(item.value.username) THEN NoSession
    ELSE [token |-> item.value.token.jwt, username |-> item.value.username.s]

LoggedIn == client.session # NoToken

\* logout(expired) setting sessionExpired without looking at the session
ExpiredAlways(expired, session, was) == IF expired THEN TRUE ELSE was

\* logout(expired), line 26: sessionExpired after the call
ExpiredAfterLogout(expired, session, was) ==
    IF expired /\ session # NoToken THEN TRUE ELSE was

\* getAuthHeader and the authInterceptor's clone of the request
SessionHeader == IF LoggedIn THEN Bearer(client.session) ELSE NoHeader

\* the GET of the constructor's switchMap
GetCall(token) ==
    Call("get", 0, 0, Request("GET", Bearer(token), <<>>, NoBody, NoIds, NoCred),
         NoTodo, 0, <<>>, <<>>)

\* switchMap unsubscribes from the GET before
NoGets(calls) == SelectSeq(calls, LAMBDA c : c.kind # "get")

SessionCanAct == client.open /\ client.acts < client.budget /\ Len(net) < MaxInFlight

ServerSame == UNCHANGED <<users, todos, sessions, limiter, now, quota, req, res, io, handlers, view>>

\* what the user types into the login form
SessionCreds == {Cred(Str(U_ann), Str(P_secret)), Cred(Str(U_ann), Str(P_wrong))}

\* Login._login, lines 647-658; the form is on the page while nobody is logged in
SubmitLogin ==
    \E c \in SessionCreds :
        LET r == Request("LOGIN", SessionHeader, <<>>, NoBody, NoIds,
                         Cred(Str(trim(c.username.s)), c.password))
        IN  /\ SessionCanAct
            /\ ~LoggedIn
            /\ client' = [client EXCEPT !.acts = @ + 1, !.n = @ + 1, !.event = "submit"]
            /\ net' = Append(net, Call("login", 0, 0, r, NoTodo, 0, <<>>, client.todos))
            /\ ServerSame

\* App.logout, lines 206-209, and the subscription's next for logged out: the
\* POST is sent with the header, the session and the stored item are removed,
\* the list is emptied
Logout ==
    LET r == Request("LOGOUT", SessionHeader, <<>>, NoBody, NoIds, NoCred)
    IN  /\ SessionCanAct
        /\ LoggedIn
        /\ client' = [client EXCEPT
               !.acts = @ + 1, !.n = @ + 1, !.event = "logout",
               !.session = NoToken, !.username = <<>>, !.storage = NoItem,
               !.todos = IF client.watch THEN <<>> ELSE @,
               !.loading = IF client.watch THEN TRUE ELSE @,
               !.cleared = client.watch]
        /\ net' = Append(Touched(IF client.watch THEN NoGets(net) ELSE net),
                         Call("logout", 0, 0, r, NoTodo, 0, <<>>, client.todos))
        /\ ServerSame

\* a page in the browser session: the service restores the stored session, the
\* App starts with an empty list and loads it when a session was restored
PageOf(item, acts, budget, n) ==
    [open |-> TRUE, session |-> Restore(item).token, username |-> Restore(item).username,
     expired |-> FALSE, storage |-> item, todos |-> <<>>, loading |-> TRUE, watch |-> TRUE,
     cleared |-> FALSE, toast |-> "", acts |-> acts, budget |-> budget, round |-> NoRound,
     n |-> n, event |-> "load", kind |-> "", status |-> 0]

CallsOf(page) == IF page.session # NoToken THEN <<GetCall(page.session)>> ELSE <<>>

\* the page is loaded again; the calls of the page before are gone with it
Reload ==
    LET page == PageOf(client.storage, client.acts + 1, client.budget, client.n + 1)
    IN  /\ client.open
        /\ "storage" \in DOMAIN client
        /\ client.acts < client.budget
        /\ client' = page
        /\ net' = CallsOf(page)
        /\ ServerSame

\* deleteTodo and the drop, on the list of the user who is logged in
RemoveTodo == LoggedIn /\ "storage" \in DOMAIN client /\ DeleteTodoClient
DragTodo == LoggedIn /\ "storage" \in DOMAIN client /\ Drop

\* the server handles a call: the login behind the limiter, the logout by its
\* 204, the todo endpoints by their handlers
ServeSession ==
    \E i \in 1..Len(net) :
        LET r == net[i].r
            l == Hit(limiter, now)
            auth == PostLogin(r, users, l, now)
            out == Route(r, todos, now)
        IN  /\ "storage" \in DOMAIN client
            /\ net[i].stage = "sent"
            /\ IF r.op = "LOGIN"
               THEN /\ net' = [net EXCEPT ![i].stage = "answered", ![i].res = auth.res]
                    /\ limiter' = l
                    /\ sessions' = IF auth.res.token = NoToken THEN sessions
                                   ELSE sessions \cup {auth.res.token}
                    /\ UNCHANGED todos
               ELSE IF r.op = "LOGOUT"
               THEN /\ net' = [net EXCEPT ![i].stage = "answered", ![i].res = Reply(204, "", <<>>)]
                    /\ UNCHANGED <<limiter, sessions, todos>>
               ELSE /\ net' = [net EXCEPT ![i].stage = "answered", ![i].res = out.res]
                    /\ todos' = out.files
                    /\ UNCHANGED <<limiter, sessions>>
            /\ UNCHANGED <<users, now, quota, req, res, io, handlers, client, view>>

\* A response reaches the page. The authInterceptor logs out on a 401, then
\* the call's own callback runs, then the subscription to isLoggedIn sees the
\* change: logged in, it sends the GET; logged out, it empties the list. An
\* error of the GET ends that subscription.
Receive ==
    \E i \in 1..Len(net) :
        LET c == net[i]
            ok == Ok(c.res.status)
            denied == c.res.status = 401
            expired == IF denied THEN ExpiredAfterLogout(TRUE, client.session, client.expired)
                       ELSE IF ok /\ c.kind = "login" THEN FALSE
                       ELSE client.expired
            session == IF denied THEN NoSession
                       ELSE IF ok /\ c.kind = "login"
                       THEN [token |-> c.res.token, username |-> c.res.token.username]
                       ELSE [token |-> client.session, username |-> client.username]
            storage == IF denied THEN NoItem
                       ELSE IF ok /\ c.kind = "login"
                       THEN Stringify(session.token, session.username)
                       ELSE client.storage
            called == CASE c.kind = "get" /\ ok -> c.res.data
                        [] c.kind \in {"get", "login", "logout"} -> client.todos
                        [] ok -> OnNext(c, client.todos)
                        [] OTHER -> OnError(c, client.todos)
            watch == client.watch /\ ~(c.kind = "get" /\ ~ok)
            in == watch /\ ~LoggedIn /\ session.token # NoToken
            out == watch /\ LoggedIn /\ session.token = NoToken
            rest == Without(net, i)
        IN  /\ "storage" \in DOMAIN client
            /\ c.stage = "answered"
            /\ client' = [client EXCEPT
                   !.session = session.token, !.username = session.username,
                   !.expired = expired, !.storage = storage,
                   !.todos = IF out THEN <<>> ELSE called,
                   !.loading = IF out THEN TRUE ELSE IF c.kind = "get" THEN FALSE ELSE @,
                   !.watch = watch,
                   !.cleared = IF out THEN TRUE ELSE IF c.kind = "get" /\ ok THEN FALSE ELSE @,
                   !.toast = IF ok \/ c.kind \in {"get", "login", "logout"} THEN @
                             ELSE ToastOf(c.kind),
                   !.round = NoRound,
                   !.n = @ + 1, !.event = "receive", !.kind = c.kind, !.status = c.res.status]
            /\ net' = IF in THEN Append(Touched(rest), GetCall(session.token))
                      ELSE IF out THEN Touched(NoGets(rest))
                      ELSE Touched(rest)
            /\ ServerSame

\* the store or the network fails a call
FailSession == "storage" \in DOMAIN client /\ FailCall

\* the clock reaches the expiry of the token of the day before
TickSession ==
    /\ client.open
    /\ "storage" \in DOMAIN client
    /\ now < DAY_MS - 1 + MaxMsTicks
    /\ now' = now + 1
    /\ UNCHANGED <<users, todos, sessions, limiter, quota, req, res, io, handlers, client,
                   net, view>>

\* ann's token of the day before, a millisecond before its expiry
OldToken == createSession(U_ann, 1)

\* what the page may find in sessionStorage: nothing, ann's session, and
\* entries that are empty, not JSON, the JSON null, or an object that lacks
\* the token or the username or has an empty token
StoredItems ==
    {NoItem, Stringify(OldToken, U_ann), EmptyText, NotJson, JsonText(Null),
     JsonText(Obj(U, Str(U_ann))), JsonText(Obj(Jwt(OldToken), U)),
     JsonText(Obj(Str(<<>>), Str(U_ann)))}

\* the page is opened on one of these items; ann has two todos on the server
InitSession ==
    \E item \in StoredItems :
        LET t1 == NewTodo(1, Str(T_milk), Str(S_medium), Null)
            t2 == NewTodo(2, Str(T_mom), Str(S_high), Str(D_date))
            page == PageOf(item, 0, MaxSessionActs, 0)
        IN  /\ users = <<Account(U_ann, P_secret)>>
            /\ todos = [k \in FileKeys |-> IF k = safeName(U_ann) THEN <<t1, t2>> ELSE <<>>]
            /\ sessions = {OldToken}
            /\ limiter = [hits |-> 0, resetTime |-> 0]
            /\ now = DAY_MS - 1
            /\ quota = 0
            /\ req = NoRequest
            /\ res = Reply(0, "", <<>>)
            /\ io = <<>>
            /\ handlers = <<>>
            /\ client = page
            /\ net = CallsOf(page)
            /\ view = NoView

NextSession ==
    \/ SubmitLogin \/ Logout \/ Reload \/ RemoveTodo \/ DragTodo
    \/ ServeSession \/ FailSession \/ Receive \/ TickSession

SpecSession == InitSession /\ [][NextSession]_vars

\* the session that a stored item holds: the token and the username of an
\* item that is the JSON of an object with both, none for any other item
Held(item) ==
    IF /\ item.present /\ item.parses /\ item.value.t = "object"
       /\ item.value.token \notin {U, Null, Str(<<>>)}
       /\ item.value.username \notin {U, Null, Str(<<>>)}
    THEN [token |-> item.value.token.jwt, username |-> item.value.username.s]
    ELSE NoSession

InMemory(c) == [token |-> c.session, username |-> c.username]

PageLoaded == client'.n = client.n + 1 /\ client'.event = "load"

\* C23: after every loginWithToken, logout and page reload the session in
\* memory is the session that sessionStorage holds; a reload keeps the stored
\* item and restores the session that was in memory, the token and username of
\* the last loginWithToken or none after a logout, and none from an item that
\* lacks the token or the username or is not JSON.
C23_SessionMatchesStorage ==
    [][/\ InMemory(client') = Held(client'.storage)
       /\ PageLoaded => /\ client'.storage = client.storage
                        /\ InMemory(client') = InMemory(client)]_vars

C23_Witness ==
    /\ client.open
    /\ client.event = "load"
    /\ client.n > 0
    /\ LoggedIn
    /\ client.session # OldToken
    /\ client.username = U_ann

C23_WitnessNoSession ==
    /\ client.open
    /\ client.event = "load"
    /\ client.n > 0
    /\ ~LoggedIn
    /\ client.storage = JsonText(Obj(Jwt(OldToken), U))

\* ------------------------------------------- the migration and its failures

\* upgradeHashIfLegacy, lines 71-81: bcrypt.hash or readUsers rejects; the catch
\* logs it
MigrateFailHash ==
    \E i \in 1..Len(handlers) :
        /\ handlers[i].op = "MIGRATE"
        /\ handlers[i].pc = "hashing"
        /\ handlers' = [handlers EXCEPT ![i].pc = "failed"]
        /\ UNCHANGED <<users, todos, sessions, limiter, now, quota, req, res, io,
                       client, net, view>>

\* upgradeHashIfLegacy, lines 77-81: writeUsers rejects and leaves the store as
\* it was; the catch logs it
MigrateFailStore ==
    \E i \in 1..Len(handlers) :
        /\ handlers[i].op = "MIGRATE"
        /\ handlers[i].pc = "read"
        /\ handlers' = [handlers EXCEPT ![i].pc = "failed"]
        /\ UNCHANGED <<users, todos, sessions, limiter, now, quota, req, res, io,
                       client, net, view>>

NextMigrate ==
    \/ RegisterRead \/ RegisterWrite \/ RegisterRespond
    \/ LoginServe \/ MigrateRead \/ MigrateWrite
    \/ MigrateFailHash \/ MigrateFailStore

\* the auth handlers with a migration that may fail
SpecMigrate == InitRace /\ [][NextMigrate]_vars

\* the handler that arrives in this step is a login with the password of an
\* account that has a legacy hash
LegacyLogin ==
    /\ Len(handlers') > Len(handlers)
    /\ handlers'[Len(handlers) + 1].op = "LOGIN"
    /\ LET c == handlers'[Len(handlers) + 1].cred
           idx == FindUser(users, trim(c.username.s))
       IN  /\ idx # 0
           /\ users[idx].passwordHash = Sha256(c.password.s)

NextEdit ==
    \/ ToggleTodo \/ CyclePriority \/ CommitEdit
    \/ ServeCall \/ FailCall \/ Deliver \/ TickClient

\* user actions of one run of SpecEdit
MaxEdits == 2

InitEdit == Loaded(MaxEdits)

\* the browser and the server when the user toggles, cycles priorities and edits
SpecEdit == InitEdit /\ [][NextEdit]_vars

\* completedAt is set exactly when completed is true
Paired(list) ==
    \A i \in 1..Len(list) : (list[i].completedAt # Null) <=> (list[i].completed = Bool(TRUE))

\* C25: from lists in which every todo has a completedAt exactly when it is
\* completed, every todo of the client's list and of the server's stored list
\* has one exactly when it is completed, after any interleaving of the client's
\* toggles, priority cycles and edits with their confirmations and rollbacks.
C25_CompletedAtFollowsCompleted ==
    client.open => (Paired(client.todos) /\ Paired(todos[Mine]))

C25_Witness ==
    /\ client.open
    /\ net = <<>>
    /\ client.toast = "Failed to update task"
    /\ \E i \in 1..Len(client.todos) : client.todos[i].completed = Bool(TRUE)
    /\ \E i \in 1..Len(todos[Mine]) : todos[Mine][i].completed = Bool(TRUE)

\* ------------------------------------- todo handlers, await by await (C26)

\* With the store of Netlify Blobs (storage.js lines 24-35) readTodos and
\* writeTodos are requests to another machine, and a handler is suspended at
\* each while other handlers run.

\* todo handlers of one run
MaxOverlap == 2

\* a todo handler: its request, where it is suspended, the list readTodos gave
\* it, the list it wrote (written says whether it did), its response once
\* computed, its status once answered (0 before), and the handlers that wrote
\* between its read and its write
TodoHandler(r, pc, seen, status) ==
    [req |-> r, pc |-> pc, seen |-> seen, wrote |-> <<>>, written |-> FALSE,
     reply |-> Reply(0, "", <<>>), status |-> status, raced |-> {}]

KeyOf(h) == safeName(requireAuth(h.req.header, now).username)

\* a handler that reads the list again before it changes it
ListStored(h, files) == files[KeyOf(h)]

\* const todos = await readTodos(username): the handler goes on with the list
\* its read returned
ListHeld(h, files) == h.seen

\* the files as the handler believes them to be
FilesOf(h) == [todos EXCEPT ![KeyOf(h)] = ListHeld(h, todos)]

Touches(out, kind) == \E i \in 1..Len(out.io) : out.io[i].kind = kind

\* tokens of ann and of bob, bob's expired by now
OverlapHeaders == {Bearer(t) : t \in sessions}

\* mutating requests of a caller: two creates and a rejected one, an update and
\* a delete of the first record and of no record, the list reversed
OverlapRequests(h) ==
    LET list == CallerList(h)
        first == IF list = <<>> THEN ToDigits(UnknownId) ELSE ToDigits(list[1].id.n)
    IN  {Request("POST", h, <<>>, b, NoIds, NoCred) :
            b \in {Body(Str(T_milk), U, U, U, U, U, U),
                   Body(Str(T_mom), U, U, Str(S_high), U, U, U),
                   Body(Str(T_blank), U, U, U, U, U, U)}}
        \cup {Request("PUT", h, p, Body(U, U, U, Str(S_low), U, U, U), NoIds, NoCred) :
                p \in {first, ToDigits(UnknownId)}}
        \cup {Request("DELETE", h, p, NoBody, NoIds, NoCred) :
                p \in {first, ToDigits(UnknownId)}}
        \cup {Request("PATCH", h, <<>>, NoBody, Arr(Reverse(Ids(list))), NoCred)}

\* requireAuth and the validation that precedes readTodos, then readTodos: a
\* request rejected before it is answered at once
HandlerRead ==
    \E h \in OverlapHeaders :
        \E r \in OverlapRequests(h) :
            LET out == Route(r, todos, now)
                reads == Touches(out, "read")
            IN  /\ Len(handlers) < MaxOverlap
                /\ handlers' = Append(handlers,
                       IF reads
                       THEN TodoHandler(r, "read", readTodos(todos, requireAuth(h, now).username), 0)
                       ELSE TodoHandler(r, "done", <<>>, out.res.status))
                /\ UNCHANGED <<users, todos, sessions, limiter, now, quota, req, res, io,
                               client, net, view>>

\* from the list read to writeTodos: the handler changes its list and writes
\* it, or answers without a write (404, 400 of the reorder)
HandlerWrite ==
    \E i \in 1..Len(handlers) :
        LET h == handlers[i]
            out == Route(h.req, FilesOf(h), now)
            key == KeyOf(h)
        IN  /\ h.pc = "read"
            /\ IF Touches(out, "write")
               THEN /\ todos' = [todos EXCEPT ![key] = out.files[key]]
                    /\ handlers' = [j \in 1..Len(handlers) |->
                          IF j = i
                          THEN [h EXCEPT !.pc = "written", !.wrote = out.files[key],
                                         !.written = TRUE, !.reply = out.res]
                          ELSE IF handlers[j].pc = "read" /\ KeyOf(handlers[j]) = key
                          THEN [handlers[j] EXCEPT !.raced = @ \cup {i}]
                          ELSE handlers[j]]
               ELSE /\ todos' = todos
                    /\ handlers' = [handlers EXCEPT ![i].pc = "done", ![i].reply = out.res,
                                                    ![i].status = out.res.status]
            /\ UNCHANGED <<users, sessions, limiter, now, quota, req, res, io,
                           client, net, view>>

\* after writeTodos: the response
HandlerRespond ==
    \E i \in 1..Len(handlers) :
        /\ handlers[i].pc = "written"
        /\ handlers' = [handlers EXCEPT ![i].pc = "done", ![i].status = handlers[i].reply.status]
        /\ UNCHANGED <<users, todos, sessions, limiter, now, quota, req, res, io,
                       client, net, view>>

\* ann and bob registered a day ago and a little less; each has two todos
InitOverlap ==
    /\ users = <<Account(U_bob, P_secret), Account(U_ann, P_secret)>>
    /\ todos = [k \in FileKeys |->
                  IF k = safeName(U_ann)
                  THEN <<NewTodo(2000, Str(T_milk), Str(S_medium), Null),
                         NewTodo(3000, Str(T_mom), Str(S_high), Null)>>
                  ELSE <<NewTodo(1, Str(T_milk), Str(S_medium), Null)>>]
    /\ sessions = {createSession(U_bob, 1), createSession(U_ann, 2000)}
    /\ limiter = [hits |-> 0, resetTime |-> 0]
    /\ now = DAY_MS + 1
    /\ quota = 0
    /\ req = NoRequest
    /\ res = Reply(0, "", <<>>)
    /\ io = <<>>
    /\ ServerAlone

NextOverlap == HandlerRead \/ HandlerWrite \/ HandlerRespond \/ TickMs

\* mutating todo requests whose handlers interleave at their awaits
SpecOverlap == InitOverlap /\ [][NextOverlap]_vars

HasId(list, id) == \E k \in 1..Len(list) : list[k].id = id

\* C26: when a handler writes after another handler of the same user wrote
\* between its read and its write, the stored list is the list it computed
\* from its own read alone; when the earlier writer was a create answered or
\* about to be answered 201 whose id the later writer neither read nor made,
\* no record with that id is in the store.
C26_LastWriterWins ==
    [][\A j \in 1..Len(handlers) :
          (handlers[j].pc = "read" /\ handlers'[j].pc = "written") =>
              \A i \in handlers'[j].raced :
                  LET later == handlers[j]
                      earlier == handlers[i]
                      key == KeyOf(later)
                      own == Route(later.req, [todos EXCEPT ![key] = later.seen], now)
                  IN  /\ todos'[key] = own.files[key]
                      /\ (/\ earlier.req.op = "POST"
                          /\ earlier.reply.status = 201
                          /\ ~HasId(later.seen, earlier.reply.data[1].id)
                          /\ ~(later.req.op = "POST"
                               /\ own.res.data[1].id = earlier.reply.data[1].id))
                         => ~HasId(todos'[key], earlier.reply.data[1].id)]_vars

\* two creates of ann overlapped and both were answered 201; the store holds
\* the later writer's record and not the earlier writer's
C26_Witness ==
    \E i, j \in 1..Len(handlers) :
        /\ i \in handlers[j].raced
        /\ handlers[i].pc = "done" /\ handlers[i].status = 201
        /\ handlers[j].pc = "done" /\ handlers[j].status = 201
        /\ todos[KeyOf(handlers[j])] = handlers[j].wrote
        /\ ~HasId(todos[KeyOf(handlers[j])], handlers[i].reply.data[1].id)

\* ---------------------------------------------- reorder keeps the records

\* C27: after a reorder, accepted or rejected, the caller's stored list holds
\* the records it held before, each as often as before, and no other list has
\* changed.
C27_ReorderKeepsRecords ==
    [][(Served /\ req'.op = "PATCH")
       => IF Authentic(req'.header, now)
          THEN /\ IsPermutation(Before, After)
               /\ \A k \in FileKeys \ {safeName(req'.header.token.username)} :
                      todos'[k] = todos[k]
          ELSE todos' = todos]_vars

\* ------------------------------------------------- the order after an add

\* what GET /api/todos would answer the client now
FreshGet(files, clock) ==
    Route(Request("GET", AuthHeader, <<>>, NoBody, NoIds, NoCred), files, clock).res

\* C28: when the 201 of an addTodo is delivered, no other call having been in
\* flight with it and the client's list having been the stored list when the
\* todo was added, the client's list is in the order of the stored list, which
\* is the order of the list a GET would return.
C28_AddKeepsServerOrder ==
    [][\A i \in 1..Len(net) :
          (/\ client.open
           /\ Len(net) = 1
           /\ net' = <<>>
           /\ client' # client
           /\ net[i].kind = "add"
           /\ net[i].stage = "answered"
           /\ net[i].res.status = 201
           /\ ~net[i].touched
           /\ todos[Mine] = Append(net[i].before, net[i].res.data[1]))
          => /\ Ids(client'.todos) = Ids(todos'[Mine])
             /\ Ids(client'.todos) = Ids(FreshGet(todos', now').data)]_vars

\* ------------------------------------------------ the list after a logout

\* C29: from the moment the page has emptied the list for a logged-out user
\* until the response of the next login's GET arrives, the list is empty.
C29_ListStaysEmptyAfterLogout ==
    ("cleared" \in DOMAIN client /\ client.cleared) => client.todos = <<>>

\* ------------------------------------------------------ the 401 responses

Received == client'.n = client.n + 1 /\ client'.event = "receive"

\* C30: a 401 to any call leaves the page logged out with no stored item, and
\* sessionExpired true exactly when it was true or a session existed as the
\* 401 arrived; sessionExpired turns true in no other way; a login that
\* succeeds sets it to false; and whenever it is true nobody is logged in.
C30_UnauthorizedLogsOut ==
    /\ [](client.open => ("expired" \in DOMAIN client => (client.expired => ~LoggedIn)))
    /\ [][/\ (Received /\ client'.status = 401)
              => /\ client'.session = NoToken
                 /\ client'.storage = NoItem
                 /\ client'.expired <=> (LoggedIn \/ client.expired)
          /\ (Received /\ client'.kind = "login" /\ Ok(client'.status))
              => (~client'.expired /\ client'.session # NoToken)
          /\ (~client.expired /\ client'.expired)
              => (Received /\ client'.status = 401 /\ LoggedIn)]_vars

\* the page's token has expired and a call of it has been answered 401
C30_Witness ==
    /\ client.open
    /\ client.event = "receive"
    /\ client.status = 401
    /\ client.kind # "login"
    /\ client.expired
    /\ ~LoggedIn
    /\ client.storage = NoItem

====
